---- MODULE Spec2Model ----
(***************************************************************************)
(* Model of subconverter-go:                                               *)
(*   - Service.Convert with its concurrent per-URL fetch fan-out, the      *)
(*     response cache (MemoryCache) and context cancellation, also on a    *)
(*     cache whose Get and Set can fail;                                   *)
(*   - the Transform Stage, Service.applyFilters, as a pure function, and  *)
(*     on lists long enough for sort.Slice to leave the insertion sort;    *)
(*   - the parsers of package parser one by one, and parser.Manager with   *)
(*     Service.Validate and Service.detectFormat.                          *)
(*                                                                         *)
(* In the Convert and Transform parts strings are sequences of small       *)
(* naturals standing for characters, in the byte order Go's string         *)
(* comparison uses: 0 is the space that the emoji step inserts, 1 and 2    *)
(* are two letters, 3 is an emoji.  In the parser parts a text is the      *)
(* sequence of its bytes, so that base64, URL and YAML decoding are        *)
(* computed on the bytes.  Texts in the model are ASCII; no invalid UTF-8  *)
(* is modelled.                                                            *)
(***************************************************************************)
EXTENDS Integers, Sequences, FiniteSets, TLC

(***************************************************************************)
(* Bounds of the model.                                                    *)
(***************************************************************************)
MaxLen      == 3   \* longest proxy list handed to the Transform Stage alone
MaxURLs     == 2   \* most source URLs in one request
MaxRequests == 2   \* conversions run one after the other on one Service
MaxClock    == 2   \* last clock value
CacheTTL    == 1   \* config.Cache.TTL, in clock ticks

VARIABLES
  \* ---- Service.Convert -------------------------------------------------
  cache,        \* MemoryCache.data: key -> NoEntry or [value, expiry]
  now,          \* the clock (time.Now)
  pc,           \* position of the Convert call: idle, fetching, fetched, done
  req,          \* the ConvertRequest being served
  cancelled,    \* ctx of the current Convert call is cancelled
  tasks,        \* per source URL index: "running" or "done" (the goroutines)
  results,      \* the buffered channel `results`, in arrival order
  allProxies,   \* what fetchSubscriptions returned
  outcome,      \* what Convert returned: [kind, code] or [kind, resp]
  nreq,         \* number of Convert calls started
  fetches,      \* httpClient.Get calls issued by the current Convert call
  cacheReads,   \* cache.Get calls of the current Convert call
  cacheWrites,  \* cache.Set calls of the current Convert call
  generated,    \* the generator ran in the current Convert call
  prevReq,      \* the last request whose response was computed and cached
  prevResp,     \* the response it was given
  prevExpiry,   \* expiry of the cache entry that response is stored under
  warm,         \* the current request repeats prevReq within that expiry
  \* ---- the Transform Stage alone ---------------------------------------
  tpc,          \* "off", "in", "once", "twice"
  tin,          \* the input proxy list
  topts,        \* the Options
  tout1,        \* applyFilters(tin, topts)
  tout2,        \* applyFilters(tout1, topts)
  \* ---- one parser applied to one input ---------------------------------
  lpc,          \* "off", "in", "done"
  lin,          \* the content handed to the parser
  lparser,      \* the parser, by its Type()
  lout,         \* what its Parse returned
  \* ---- parser.Manager and Service.Validate on one content ---------------
  mpc,          \* "off", "in", "validated", "encoded"
  mcontent,     \* the content of the subscription
  mout,         \* Manager.Parse(mcontent)
  mformat,      \* detectFormat(mcontent), "" when Validate did not get there
  mwrapped,     \* Manager.Parse of the standard base64 of mcontent
  mtwice,       \* Manager.Parse of the standard base64 of that base64
  \* ---- Convert on a cache that can fail -------------------------------
  lookup,       \* cache.Get of the current call: "none", "hit", "miss",
                \* "error" or "corrupt"
  writeFailed,  \* cache.Set of the current call returned an error
  \* ---- the Transform Stage on a list longer than maxInsertion ----------
  spc,          \* "off", "in", "done"
  sin,          \* the input proxy list; the options ask for sort only
  ssorted,      \* the list after sort.Slice
  sout,         \* the list applyFilters returned
  \* ---- the rule section of a generated configuration -------------------
  rpc,          \* "off", "in", "done"
  rsets,        \* the RuleSets handed to Generate
  rcustom,      \* options.Rules, the custom rules
  rclash,       \* what ClashGenerator.buildRules returned
  rsurge,       \* the lines SurgeGenerator.Generate wrote after [Rule]
  \* ---- a MemoryCache used by concurrent callers ------------------------
  kdata,        \* MemoryCache.data
  know,         \* the clock (time.Now)
  klast,        \* per key: the latest Set, NoSet once deleted or never set
  kgot,         \* the last Get: its key, what it returned, what was due
  kswept,       \* the entries the last sweep deleted, and when
  \* ---- template.Manager used by concurrent conversions ----------------
  ppc,          \* per goroutine: "idle", "lookup", "load", "insert"
  pname,        \* per goroutine: the template name of its LoadTemplate call
  pret,         \* per goroutine: what its last LoadTemplate returned
  pcache,       \* Manager.cache: the names that have a parsed template
  pfatal,       \* the runtime stopped the process on a concurrent map access
  \* ---- Queue.Fail and Queue.Get on a stored job ------------------------
  qimpl,        \* "memory" (MemoryQueue) or "redis" (RedisQueue)
  qstore,       \* job id -> the stored Job (q.jobs, or the Redis keys)
  qfail,        \* the last Fail call: its job id, its error, how it ended
  qgot,         \* what the last Get returned
  \* ---- a MemoryQueue with pushers and a pool of workers ----------------
  wjob,         \* per Job object: its ID (0: not set yet) and Status
  wpush,        \* per Job object: "new", "writing" (Push is inside
                \* q.jobs[job.ID] = job), "pushed" (Push returned nil)
  wmap,         \* q.jobs: job ID -> the Job object stored under it
  wchan,        \* q.queue: the Job objects in the channel
  wpc,          \* per worker: "pop", "convert", "lookup" (Complete or Fail
                \* is inside its read of q.jobs[jobID])
  wheld,        \* per worker: the Job object Pop gave it, 0 for none
  wres,         \* per worker: Convert succeeded
  wclock,       \* time.Now().UnixNano()
  wpops,        \* per Job object: how often Pop returned it
  wruns,        \* per Job object: how often Convert ran for it
  wfatal,       \* the runtime stopped the process on a concurrent map access
  \* ---- one Clash proxy entry parsed and generated again ----------------
  xpc,          \* "off", "in", "parsed", "generated"
  xmap,         \* the entry of the source document, as yaml decoded it
  xtls,         \* node.TLS after parseProxyMap
  xout          \* the entry buildProxies emitted has `tls: true`

cvars == <<cache, now, pc, req, cancelled, tasks, results, allProxies,
           outcome, nreq, fetches, cacheReads, cacheWrites, generated,
           prevReq, prevResp, prevExpiry, warm>>
tvars == <<tpc, tin, topts, tout1, tout2>>
lvars == <<lpc, lin, lparser, lout>>
mvars == <<mpc, mcontent, mout, mformat, mwrapped, mtwice>>
fvars == <<lookup, writeFailed>>
svars == <<spc, sin, ssorted, sout>>
rvars == <<rpc, rsets, rcustom, rclash, rsurge>>
kvars == <<kdata, know, klast, kgot, kswept>>
pvars == <<ppc, pname, pret, pcache, pfatal>>
qvars == <<qimpl, qstore, qfail, qgot>>
wvars == <<wjob, wpush, wmap, wchan, wpc, wheld, wres, wclock, wpops, wruns,
           wfatal>>
xvars == <<xpc, xmap, xtls, xout>>
nvars == <<rvars, kvars, pvars, qvars, wvars, xvars>>
ovars == <<cvars, tvars, lvars, mvars, fvars, svars>>
vars  == <<cvars, tvars, lvars, mvars, fvars, svars, nvars>>

(***************************************************************************)
(* String helpers (package strings, Go string comparison).                 *)
(***************************************************************************)
\* strings.Contains(s, substr)
Contains(s, substr) ==
  \E i \in 0..(Len(s) - Len(substr)) : SubSeq(s, i + 1, i + Len(substr)) = substr

\* strings.ReplaceAll(s, old, new): leftmost non-overlapping matches; an
\* empty `old` matches before every character and at the end.
RECURSIVE ReplaceAll(_, _, _)
ReplaceAll(s, old, new) ==
  IF old = <<>>
    THEN IF s = <<>> THEN new
         ELSE new \o <<Head(s)>> \o ReplaceAll(Tail(s), old, new)
  ELSE IF Len(s) < Len(old) THEN s
  ELSE IF SubSeq(s, 1, Len(old)) = old
    THEN new \o ReplaceAll(SubSeq(s, Len(old) + 1, Len(s)), old, new)
  ELSE <<Head(s)>> \o ReplaceAll(Tail(s), old, new)

\* a < b on Go strings: bytewise lexicographic
RECURSIVE StrLess(_, _)
StrLess(a, b) ==
  IF b = <<>> THEN FALSE
  ELSE IF a = <<>> THEN TRUE
  ELSE IF Head(a) # Head(b) THEN Head(a) < Head(b)
  ELSE StrLess(Tail(a), Tail(b))

\* lo.SomeBy(patterns, func(pattern) strings.Contains(name, pattern))
MatchesAny(name, patterns) ==
  \E k \in 1..Len(patterns) : Contains(name, patterns[k])

(***************************************************************************)
(* Subscription text.  The content the parsers read is a sequence of       *)
(* bytes, 0..255; Txt turns a literal of printable ASCII into its bytes.   *)
(***************************************************************************)
\* the characters 32..95 and 97..126
PrintableLow ==
  " !\"#$%&'()*+,-./0123456789:;<=>?@ABCDEFGHIJKLMNOPQRSTUVWXYZ[\\]^_"
PrintableHigh == "abcdefghijklmnopqrstuvwxyz{|}~"

\* the byte of a one-character literal
Ord(c) ==
  IF \E i \in 1..Len(PrintableLow) : SubSeq(PrintableLow, i, i) = c
    THEN 31 + (CHOOSE i \in 1..Len(PrintableLow) : SubSeq(PrintableLow, i, i) = c)
    ELSE 96 + (CHOOSE i \in 1..Len(PrintableHigh) : SubSeq(PrintableHigh, i, i) = c)

\* []byte(literal)
Txt(s) == [i \in 1..Len(s) |-> Ord(SubSeq(s, i, i))]

LF == <<10>>

\* strings.HasPrefix(s, prefix)
HasPrefix(s, prefix) ==
  Len(s) >= Len(prefix) /\ SubSeq(s, 1, Len(prefix)) = prefix

\* strings.TrimPrefix(s, prefix)
TrimPrefix(s, prefix) ==
  IF HasPrefix(s, prefix) THEN SubSeq(s, Len(prefix) + 1, Len(s)) ELSE s

\* strings.Index(s, sep): the 1-based position of the first match, 0 if none
Index(s, sep) ==
  IF Contains(s, sep)
    THEN CHOOSE i \in 1..(Len(s) - Len(sep) + 1) :
           /\ SubSeq(s, i, i + Len(sep) - 1) = sep
           /\ \A j \in 1..(i - 1) : SubSeq(s, j, j + Len(sep) - 1) # sep
    ELSE 0

\* strings.LastIndex(s, sep): the 1-based position of the last match, 0 if none
LastIndex(s, sep) ==
  IF Contains(s, sep)
    THEN CHOOSE i \in 1..(Len(s) - Len(sep) + 1) :
           /\ SubSeq(s, i, i + Len(sep) - 1) = sep
           /\ \A j \in (i + 1)..(Len(s) - Len(sep) + 1) :
                 SubSeq(s, j, j + Len(sep) - 1) # sep
    ELSE 0

\* strings.Split(s, sep) for a non-empty sep
RECURSIVE Split(_, _)
Split(s, sep) ==
  LET i == Index(s, sep)
  IN  IF i = 0 THEN <<s>>
      ELSE <<SubSeq(s, 1, i - 1)>> \o Split(SubSeq(s, i + Len(sep), Len(s)), sep)

\* strings.SplitN(s, sep, 2)
SplitN2(s, sep) ==
  LET i == Index(s, sep)
  IN  IF i = 0 THEN <<s>>
      ELSE <<SubSeq(s, 1, i - 1), SubSeq(s, i + Len(sep), Len(s))>>

\* the ASCII white space strings.TrimSpace cuts
IsSpace(b) == b \in {9, 10, 11, 12, 13, 32}

\* strings.TrimSpace(s)
TrimSpace(s) ==
  LET keep == {i \in 1..Len(s) : ~IsSpace(s[i])}
  IN  IF keep = {} THEN <<>>
      ELSE SubSeq(s, CHOOSE i \in keep : \A j \in keep : i <= j,
                     CHOOSE i \in keep : \A j \in keep : i >= j)

IsDigit(b) == b \in 48..57

\* strconv.Atoi(s): an optional sign and decimal digits; the values of the
\* model fit an int
RECURSIVE DigitsValue(_)
DigitsValue(s) ==
  IF s = <<>> THEN 0
  ELSE 10 * DigitsValue(SubSeq(s, 1, Len(s) - 1)) + (s[Len(s)] - 48)

Atoi(s) ==
  LET signed == Len(s) > 0 /\ s[1] \in {43, 45}
      digits == IF signed THEN Tail(s) ELSE s
  IN  IF digits = <<>> \/ \E i \in 1..Len(digits) : ~IsDigit(digits[i])
        THEN [err |-> TRUE, n |-> 0]
        ELSE [err |-> FALSE,
              n   |-> IF signed /\ s[1] = 45 THEN 0 - DigitsValue(digits)
                      ELSE DigitsValue(digits)]

(***************************************************************************)
(* encoding/base64: StdEncoding (padded, alphabet ending in + and /) and   *)
(* RawURLEncoding (unpadded, alphabet ending in - and _).                  *)
(***************************************************************************)
encodeStd ==
  Txt("ABCDEFGHIJKLMNOPQRSTUVWXYZabcdefghijklmnopqrstuvwxyz0123456789+/")
encodeURL ==
  Txt("ABCDEFGHIJKLMNOPQRSTUVWXYZabcdefghijklmnopqrstuvwxyz0123456789-_")

PadChar == 61

\* Encoding.EncodeToString of StdEncoding: three bytes give four characters,
\* a last group of one or two bytes is padded with =
RECURSIVE StdEncode(_)
StdEncode(src) ==
  IF src = <<>> THEN <<>>
  ELSE IF Len(src) = 1
    THEN <<encodeStd[(src[1] \div 4) + 1],
           encodeStd[(src[1] % 4) * 16 + 1], PadChar, PadChar>>
  ELSE IF Len(src) = 2
    THEN <<encodeStd[(src[1] \div 4) + 1],
           encodeStd[(src[1] % 4) * 16 + (src[2] \div 16) + 1],
           encodeStd[(src[2] % 16) * 4 + 1], PadChar>>
  ELSE <<encodeStd[(src[1] \div 4) + 1],
         encodeStd[(src[1] % 4) * 16 + (src[2] \div 16) + 1],
         encodeStd[(src[2] % 16) * 4 + (src[3] \div 64) + 1],
         encodeStd[(src[3] % 64) + 1]>>
       \o StdEncode(SubSeq(src, 4, Len(src)))

\* Encoding.decodeMap: the value of a character of the alphabet
InAlphabet(alphabet, b) == \E i \in 1..64 : alphabet[i] = b
DecodeMap(alphabet, b) == (CHOOSE i \in 1..64 : alphabet[i] = b) - 1

\* the bytes of a quantum of n characters (n is 2, 3 or 4); left-over bits of
\* a short quantum are dropped
QuantumBytes(alphabet, q) ==
  LET v(i) == IF i <= Len(q) THEN DecodeMap(alphabet, q[i]) ELSE 0
      val  == v(1) * 262144 + v(2) * 4096 + v(3) * 64 + v(4)
      all  == <<val \div 65536, (val \div 256) % 256, val % 256>>
  IN  SubSeq(all, 1, Len(q) - 1)

\* Encoding.DecodeString after the line breaks have been skipped: quanta of
\* four characters of the alphabet; the last quantum may be short, and with
\* padding it must then be filled up with = to four characters.  `dst`
\* holds the bytes decoded so far.
RECURSIVE DecodeQuanta(_, _, _, _)
DecodeQuanta(alphabet, padded, src, dst) ==
  LET n     == IF Len(src) < 4 THEN Len(src) ELSE 4
      k     == Cardinality({i \in 1..n : \A j \in 1..i : InAlphabet(alphabet, src[j])})
      q     == SubSeq(src, 1, k)
      rest  == SubSeq(src, k + 1, Len(src))
      Fail  == [err |-> TRUE, bytes |-> <<>>]
  IN  IF src = <<>> THEN [err |-> FALSE, bytes |-> dst]
      ELSE IF k = 4
        THEN DecodeQuanta(alphabet, padded, SubSeq(src, 5, Len(src)),
                          dst \o QuantumBytes(alphabet, q))
      ELSE IF k < 2 THEN Fail
      ELSE IF padded
        THEN IF rest = [i \in 1..(4 - k) |-> PadChar]
               THEN [err |-> FALSE, bytes |-> dst \o QuantumBytes(alphabet, q)]
               ELSE Fail
      ELSE IF rest = <<>>
        THEN [err |-> FALSE, bytes |-> dst \o QuantumBytes(alphabet, q)]
      ELSE Fail

SkipNewlines(src) == SelectSeq(src, LAMBDA b : b \notin {10, 13})

\* base64.StdEncoding.DecodeString
StdDecode(src) == DecodeQuanta(encodeStd, TRUE, SkipNewlines(src), <<>>)

\* base64.RawURLEncoding.DecodeString
RawURLDecode(src) == DecodeQuanta(encodeURL, FALSE, SkipNewlines(src), <<>>)

(***************************************************************************)
(* net/url, for the URLs the link parsers read.  Percent escapes and       *)
(* bracketed IPv6 hosts are left out: no input of the model has a % or a   *)
(* [, so unescaping is the identity and never fails.                       *)
(***************************************************************************)
IsAlpha(b) == b \in 65..90 \/ b \in 97..122
IsAlnum(b) == IsAlpha(b) \/ IsDigit(b)

\* strings.ToLower on ASCII
ToLower(s) == [i \in 1..Len(s) |-> IF s[i] \in 65..90 THEN s[i] + 32 ELSE s[i]]

\* getScheme: letters, then letters, digits, + - . up to a colon; anything
\* else means that there is no scheme (a leading colon is an error)
getScheme(rawURL) ==
  LET ok(i) == IsAlpha(rawURL[i]) \/ (i > 1 /\ (IsDigit(rawURL[i]) \/ rawURL[i] \in {43, 45, 46}))
      n     == Cardinality({i \in 1..Len(rawURL) : \A j \in 1..i : ok(j)})
  IN  IF n < Len(rawURL) /\ rawURL[n + 1] = 58
        THEN IF n = 0 THEN [err |-> TRUE, scheme |-> <<>>, rest |-> <<>>]
             ELSE [err |-> FALSE, scheme |-> SubSeq(rawURL, 1, n),
                   rest |-> SubSeq(rawURL, n + 2, Len(rawURL))]
        ELSE [err |-> FALSE, scheme |-> <<>>, rest |-> rawURL]

\* validOptionalPort: "" or a colon followed by digits only
validOptionalPort(port) ==
  port = <<>> \/ (port[1] = 58 /\ \A i \in 2..Len(port) : IsDigit(port[i]))

\* validUserinfo
validUserinfo(s) ==
  \A i \in 1..Len(s) :
     IsAlnum(s[i]) \/ s[i] \in {45, 46, 95, 58, 126, 33, 36, 38, 39, 40, 41,
                                42, 43, 44, 59, 61, 37, 64}

\* the ASCII bytes unescape(host, encodeHost) accepts unescaped
validHostByte(b) ==
  \/ IsAlnum(b) \/ b >= 128
  \/ b \in {33, 36, 38, 39, 40, 41, 42, 43, 44, 59, 61, 58, 91, 93, 60, 62, 34}
  \/ b \in {45, 95, 46, 126}

\* parseHost
parseHost(host) ==
  LET i == LastIndex(host, <<58>>)
  IN  IF i # 0 /\ ~validOptionalPort(SubSeq(host, i, Len(host))) THEN [err |-> TRUE]
      ELSE IF \E k \in 1..Len(host) : ~validHostByte(host[k]) THEN [err |-> TRUE]
      ELSE [err |-> FALSE]

\* parseAuthority: the user information ends at the last @
parseAuthority(authority) ==
  LET i        == LastIndex(authority, <<64>>)
      host     == SubSeq(authority, i + 1, Len(authority))
      userinfo == SubSeq(authority, 1, i - 1)
  IN  IF parseHost(host).err THEN [err |-> TRUE]
      ELSE IF i = 0
        THEN [err |-> FALSE, hasUser |-> FALSE, userinfo |-> <<>>, Host |-> host]
      ELSE IF ~validUserinfo(userinfo) THEN [err |-> TRUE]
      ELSE [err |-> FALSE, hasUser |-> TRUE, userinfo |-> userinfo, Host |-> host]

\* a URL that failed to parse
NoURL ==
  [err |-> TRUE, Scheme |-> <<>>, hasUser |-> FALSE, userinfo |-> <<>>,
   Host |-> <<>>, Fragment |-> <<>>]

\* the URL of a scheme, an authority and a fragment
withAuthority(scheme, frag, a) ==
  IF a.err THEN NoURL
  ELSE [err |-> FALSE, Scheme |-> ToLower(scheme), hasUser |-> a.hasUser,
        userinfo |-> a.userinfo, Host |-> a.Host, Fragment |-> frag]

\* parse, once the scheme is cut off and the query is cut from the rest:
\* the authority runs from behind the two slashes to the next slash
parseRest(scheme, rest, frag) ==
  LET slash == Index(SubSeq(rest, 3, Len(rest)), <<47>>)
  IN  IF ~HasPrefix(rest, <<47>>) /\ scheme = <<>>
         /\ Contains(SplitN2(rest, <<47>>)[1], <<58>>) THEN NoURL
      ELSE IF HasPrefix(rest, <<47, 47>>) /\ (scheme # <<>> \/ ~HasPrefix(rest, <<47, 47, 47>>))
        THEN withAuthority(scheme, frag,
                           parseAuthority(IF slash = 0 THEN SubSeq(rest, 3, Len(rest))
                                          ELSE SubSeq(rest, 3, slash + 1)))
      ELSE [err |-> FALSE, Scheme |-> ToLower(scheme), hasUser |-> FALSE,
            userinfo |-> <<>>, Host |-> <<>>, Fragment |-> frag]

\* parse, once getScheme has returned
withScheme(frag, sch) ==
  IF sch.err THEN NoURL
  ELSE parseRest(sch.scheme, SplitN2(sch.rest, <<63>>)[1], frag)

\* parse(u, false) followed by setFragment(frag)
parse(u, frag) ==
  IF \E i \in 1..Len(u) : u[i] < 32 \/ u[i] = 127 THEN NoURL
  ELSE withScheme(frag, getScheme(u))

\* url.Parse, once the fragment is cut off
cutFragment(cutF) == parse(cutF[1], IF Len(cutF) = 2 THEN cutF[2] ELSE <<>>)

\* url.Parse(rawURL): the fields the parsers read; the fragment is cut off
\* at the first #
urlParse(rawURL) == cutFragment(SplitN2(rawURL, <<35>>))

\* URL.Hostname and URL.Port: the host is cut at its last colon when what
\* follows is a valid port
Hostname(u) ==
  LET colon == LastIndex(u.Host, <<58>>)
  IN  IF colon # 0 /\ validOptionalPort(SubSeq(u.Host, colon, Len(u.Host)))
        THEN SubSeq(u.Host, 1, colon - 1) ELSE u.Host

Port(u) ==
  LET colon == LastIndex(u.Host, <<58>>)
  IN  IF colon # 0 /\ validOptionalPort(SubSeq(u.Host, colon, Len(u.Host)))
        THEN SubSeq(u.Host, colon + 1, Len(u.Host)) ELSE <<>>

\* Userinfo.String followed by url.PathUnescape: the user information as it
\* stands in the URL ("" for a URL without one)
UserString(u) == u.userinfo

\* Userinfo.Username and Userinfo.Password: cut at the first colon
Username(u) == SplitN2(u.userinfo, <<58>>)[1]
UserPassword(u) ==
  IF Len(SplitN2(u.userinfo, <<58>>)) = 2 THEN SplitN2(u.userinfo, <<58>>)[2]
  ELSE <<>>

(***************************************************************************)
(* The parsers.  A parser returns [kind, proxies]: kind is "ok", "err"     *)
(* (a returned error) or "panic" (a run-time panic, which nothing in the   *)
(* parser package nor in fetchSubscriptions recovers).  A parsed proxy has *)
(* the fields of proxy.Proxy that the properties below speak of; its id is *)
(* a fresh UUID and is left out.                                           *)
(***************************************************************************)
ParseFailed   == [kind |-> "err", proxies |-> <<>>]
ParsePanicked == [kind |-> "panic", proxies |-> <<>>]
Parsed(proxies) == [kind |-> "ok", proxies |-> proxies]

Node(type, name, server, port, method, password, uuid, udp) ==
  [type |-> type, name |-> name, server |-> server, port |-> port,
   method |-> method, password |-> password, uuid |-> uuid, udp |-> udp]

SchemeSS        == Txt("ss://")
SchemeSSR       == Txt("ssr://")
SchemeVMess     == Txt("vmess://")
SchemeVLESS     == Txt("vless://")
SchemeTrojan    == Txt("trojan://")
SchemeHysteria  == Txt("hysteria://")
SchemeHysteria2 == Txt("hysteria2://")
SchemeSnell     == Txt("snell://")
SchemeHTTP      == Txt("http://")
SchemeHTTPS     == Txt("https://")
SchemeSocks5    == Txt("socks5://")
SchemeSocks     == Txt("socks://")

TypeSS        == Txt("ss")
TypeSSR       == Txt("ssr")
TypeVMess     == Txt("vmess")
TypeVLESS     == Txt("vless")
TypeTrojan    == Txt("trojan")
TypeHysteria  == Txt("hysteria")
TypeHysteria2 == Txt("hysteria2")
TypeSnell     == Txt("snell")
TypeHTTP      == Txt("http")
TypeHTTPS     == Txt("https")
TypeSocks5    == Txt("socks5")

At    == <<64>>
Colon == <<58>>

\* ---- SSParser ----------------------------------------------------------
SSNamePrefix == Txt("SS-")

\* SSParser.parseLegacy, once both halves are split at their first colon
parseLegacyHalves(methodPassword, serverPort) ==
  LET port == Atoi(serverPort[2])
  IN  IF Len(methodPassword) # 2 THEN ParseFailed
      ELSE IF Len(serverPort) # 2 THEN ParseFailed
      ELSE IF port.err THEN ParseFailed
      ELSE Parsed(<<Node(TypeSS, SSNamePrefix \o serverPort[1], serverPort[1],
                         port.n, methodPassword[1], methodPassword[2], <<>>, TRUE)>>)

\* parts := strings.SplitN(decoded, "@", 2)
parseLegacyParts(parts) ==
  IF Len(parts) # 2 THEN ParseFailed
  ELSE parseLegacyHalves(SplitN2(parts[1], Colon), SplitN2(parts[2], Colon))

\* SSParser.parseLegacy: method:password@server:port
parseLegacy(decoded) == parseLegacyParts(SplitN2(decoded, At))

\* SSParser.parseSIP002 on the parsed URL: the user information is split at
\* its first colon as it stands in the URL
parseSIP002URL(u) ==
  LET userInfo       == UserString(u)
      methodPassword == SplitN2(userInfo, Colon)
      port           == Atoi(Port(u))
  IN  IF u.err THEN ParseFailed
      ELSE IF Len(methodPassword) # 2 THEN ParseFailed
      ELSE IF port.err THEN ParseFailed
      ELSE Parsed(<<Node(TypeSS,
                         IF u.Fragment = <<>> THEN SSNamePrefix \o Hostname(u)
                         ELSE u.Fragment,
                         Hostname(u), port.n, methodPassword[1],
                         methodPassword[2], <<>>, TRUE)>>)

\* u, err := url.Parse("ss://" + content), and the rest of parseSIP002
parseSIP002(content) == parseSIP002URL(urlParse(SchemeSS \o content))

SSSupport(content) == HasPrefix(content, SchemeSS)

\* SSParser.Parse on what follows the scheme: RawURLEncoding, then
\* StdEncoding, then the SIP002 form
SSDecoded(body, raw, std) ==
  IF ~raw.err THEN parseLegacy(raw.bytes)
  ELSE IF ~std.err THEN parseLegacy(std.bytes)
  ELSE parseSIP002(body)

SSBody(body) == SSDecoded(body, RawURLDecode(body), StdDecode(body))

\* SSParser.Parse
SSParse(content) ==
  IF ~SSSupport(content) THEN ParseFailed
  ELSE SSBody(TrimPrefix(content, SchemeSS))

\* ---- SSRParser ---------------------------------------------------------
SSRNamePrefix == Txt("SSR-")
KeyRemarks    == Txt("remarks")

\* base64: RawURLEncoding first, then StdEncoding
rawOrStd(s, raw) == IF ~raw.err THEN raw ELSE StdDecode(s)

DecodeEither(s) == rawOrStd(s, RawURLDecode(s))

\* if decoded, err := decode(value); err == nil { value = decoded }
decodedOr(value, decoded) == IF ~decoded.err THEN decoded.bytes ELSE value

\* params[key] after the loop over the pairs: the last pair with that key
\* wins, its value base64-decoded when it can be
SSRParam(pairs, key) ==
  LET kv(i) == SplitN2(pairs[i], <<61>>)
      hits  == {i \in 1..Len(pairs) : Len(kv(i)) = 2 /\ kv(i)[1] = key}
      last  == CHOOSE i \in hits : \A j \in hits : j <= i
  IN  IF hits = {} THEN <<>>
      ELSE decodedOr(kv(last)[2], DecodeEither(kv(last)[2]))

SSRSupport(content) == HasPrefix(content, SchemeSSR)

\* name := params["remarks"]; if name == "" { name = "SSR-" + server }
SSRName(remarks, server) ==
  IF remarks = <<>> THEN SSRNamePrefix \o server ELSE remarks

\* SSRParser.Parse on the parts around the colons and the pairs of the
\* parameters
SSRNode(basicParts, pairs) ==
  LET port     == Atoi(basicParts[2])
      password == DecodeEither(basicParts[6])
  IN  IF Len(basicParts) # 6 THEN ParseFailed
      ELSE IF port.err THEN ParseFailed
      ELSE IF password.err THEN ParseFailed
      ELSE Parsed(<<Node(TypeSSR, SSRName(SSRParam(pairs, KeyRemarks), basicParts[1]),
                         basicParts[1], port.n, basicParts[4], password.bytes,
                         <<>>, TRUE)>>)

\* parts := strings.SplitN(decoded, "/?", 2)
SSRParts(parts) ==
  SSRNode(Split(parts[1], Colon),
          IF Len(parts) > 1 THEN Split(parts[2], <<38>>) ELSE <<>>)

SSRDecoded(decoded) ==
  IF decoded.err THEN ParseFailed
  ELSE SSRParts(SplitN2(decoded.bytes, <<47, 63>>))

\* SSRParser.Parse: server:port:protocol:method:obfs:password/?params
SSRParse(content) ==
  IF ~SSRSupport(content) THEN ParseFailed
  ELSE SSRDecoded(DecodeEither(TrimPrefix(content, SchemeSSR)))

\* ---- VMessParser -------------------------------------------------------
VMessNamePrefix == Txt("VMess-")
KeyPS   == Txt("ps")
KeyAdd  == Txt("add")
KeyPort == Txt("port")
KeyID   == Txt("id")
KeyScy  == Txt("scy")
KeyNet  == Txt("net")

\* json.Unmarshal into a struct of string fields, for the objects of the
\* model: {"k":"v",...} without white space or escapes.  Anything else,
\* a number for a value included, is an error.
jsonUnmarshal(data) ==
  LET inner   == SubSeq(data, 3, Len(data) - 2)
      members == Split(inner, <<34, 44, 34>>)
  IN  IF data = <<123, 125>> THEN [err |-> FALSE, members |-> <<>>]
      ELSE IF Len(data) < 4 \/ SubSeq(data, 1, 2) # <<123, 34>>
              \/ SubSeq(data, Len(data) - 1, Len(data)) # <<34, 125>>
        THEN [err |-> TRUE, members |-> <<>>]
      ELSE IF \E i \in 1..Len(members) : Len(SplitN2(members[i], <<34, 58, 34>>)) # 2
        THEN [err |-> TRUE, members |-> <<>>]
      ELSE [err |-> FALSE,
            members |-> [i \in 1..Len(members) |-> SplitN2(members[i], <<34, 58, 34>>)]]

\* the field a key was decoded into: the last member with that key, "" if none
jsonField(members, key) ==
  LET hits == {i \in 1..Len(members) : members[i][1] = key}
  IN  IF hits = {} THEN <<>>
      ELSE members[CHOOSE i \in hits : \A j \in hits : j <= i][2]

VMessSupport(content) == HasPrefix(content, SchemeVMess)

\* VMessParser.Parse on the decoded JSON object
VMessNode(config) ==
  LET port    == Atoi(jsonField(config.members, KeyPort))
      add     == jsonField(config.members, KeyAdd)
      ps      == jsonField(config.members, KeyPS)
      net     == ToLower(jsonField(config.members, KeyNet))
  IN  IF config.err THEN ParseFailed
      ELSE IF port.err THEN ParseFailed
      ELSE Parsed(<<Node(TypeVMess,
                         IF ps = <<>> THEN VMessNamePrefix \o add ELSE ps,
                         add, port.n, jsonField(config.members, KeyScy), <<>>,
                         jsonField(config.members, KeyID),
                         net \in {Txt("udp"), Txt("tcp,udp")})>>)

VMessDecoded(decoded) ==
  IF decoded.err THEN ParseFailed ELSE VMessNode(jsonUnmarshal(decoded.bytes))

\* VMessParser.Parse
VMessParse(content) ==
  IF ~VMessSupport(content) THEN ParseFailed
  ELSE VMessDecoded(DecodeEither(TrimPrefix(content, SchemeVMess)))

\* ---- the parsers of plain URLs -----------------------------------------
TrojanNamePrefix    == Txt("Trojan-")
VLESSNamePrefix     == Txt("VLESS-")
HysteriaNamePrefix  == Txt("Hysteria-")
Hysteria2NamePrefix == Txt("Hysteria2-")
SnellNamePrefix     == Txt("Snell-")
HTTPNamePrefix      == Txt("HTTP-")
Socks5NamePrefix    == Txt("SOCKS5-")

\* name := u.Fragment; if name == "" { name = fmt.Sprintf("<prefix>%s", u.Hostname()) }
NameOr(u, prefix) ==
  IF u.Fragment = <<>> THEN prefix \o Hostname(u) ELSE u.Fragment

TrojanSupport(content) == HasPrefix(content, SchemeTrojan)

\* TrojanParser.Parse on the parsed URL; the udp flag is
\* query.Get("udp") == "true" or a "type" of udp, and no URL of the model has
\* a query
TrojanNode(u) ==
  LET port == Atoi(Port(u))
  IN  IF u.err THEN ParseFailed
      ELSE IF port.err THEN ParseFailed
      ELSE Parsed(<<Node(TypeTrojan, NameOr(u, TrojanNamePrefix), Hostname(u),
                         port.n, <<>>, Username(u), <<>>, FALSE)>>)

\* TrojanParser.Parse
TrojanParse(content) ==
  IF ~TrojanSupport(content) THEN ParseFailed ELSE TrojanNode(urlParse(content))

\* port, _ := strconv.Atoi(u.Port())
PortOrZero(u) == Atoi(Port(u)).n

VLESSSupport(content) == HasPrefix(content, SchemeVLESS)

VLESSNode(u) ==
  IF u.err THEN ParseFailed
  ELSE Parsed(<<Node(TypeVLESS, NameOr(u, VLESSNamePrefix), Hostname(u),
                     PortOrZero(u), <<>>, <<>>, Username(u), TRUE)>>)

\* VLESSParser.Parse
VLESSParse(content) ==
  IF ~VLESSSupport(content) THEN ParseFailed ELSE VLESSNode(urlParse(content))

HysteriaSupport(content) == HasPrefix(content, SchemeHysteria)

HysteriaNode(u) ==
  IF u.err THEN ParseFailed
  ELSE Parsed(<<Node(TypeHysteria, NameOr(u, HysteriaNamePrefix), Hostname(u),
                     PortOrZero(u), <<>>, Username(u), <<>>, TRUE)>>)

\* HysteriaParser.Parse
HysteriaParse(content) ==
  IF ~HysteriaSupport(content) THEN ParseFailed ELSE HysteriaNode(urlParse(content))

Hysteria2Support(content) == HasPrefix(content, SchemeHysteria2)

Hysteria2Node(u) ==
  IF u.err THEN ParseFailed
  ELSE Parsed(<<Node(TypeHysteria2, NameOr(u, Hysteria2NamePrefix), Hostname(u),
                     PortOrZero(u), <<>>, Username(u), <<>>, TRUE)>>)

\* Hysteria2Parser.Parse
Hysteria2Parse(content) ==
  IF ~Hysteria2Support(content) THEN ParseFailed ELSE Hysteria2Node(urlParse(content))

SnellSupport(content) == HasPrefix(content, SchemeSnell)

SnellNode(u) ==
  IF u.err THEN ParseFailed
  ELSE Parsed(<<Node(TypeSnell, NameOr(u, SnellNamePrefix), Hostname(u),
                     PortOrZero(u), <<>>, Username(u), <<>>, TRUE)>>)

\* SnellParser.Parse
SnellParse(content) ==
  IF ~SnellSupport(content) THEN ParseFailed ELSE SnellNode(urlParse(content))

HTTPSupport(content) ==
  HasPrefix(content, SchemeHTTP) \/ HasPrefix(content, SchemeHTTPS)

HTTPNode(u) ==
  IF u.err THEN ParseFailed
  ELSE Parsed(<<Node(IF u.Scheme = TypeHTTPS THEN TypeHTTPS ELSE TypeHTTP,
                     NameOr(u, HTTPNamePrefix), Hostname(u),
                     IF PortOrZero(u) # 0 THEN PortOrZero(u)
                     ELSE IF u.Scheme = TypeHTTPS THEN 443 ELSE 80,
                     <<>>, UserPassword(u), <<>>, FALSE)>>)

\* HTTPParser.Parse (it does not ask Support)
HTTPParse(content) == HTTPNode(urlParse(content))

Socks5Support(content) ==
  HasPrefix(content, SchemeSocks5) \/ HasPrefix(content, SchemeSocks)

\* strings.Replace(s, old, new, 1)
Replace1(s, old, new) ==
  LET i == Index(s, old)
  IN  IF i = 0 THEN s
      ELSE SubSeq(s, 1, i - 1) \o new \o SubSeq(s, i + Len(old), Len(s))

Socks5Node(u) ==
  IF u.err THEN ParseFailed
  ELSE Parsed(<<Node(TypeSocks5, NameOr(u, Socks5NamePrefix), Hostname(u),
                     IF PortOrZero(u) # 0 THEN PortOrZero(u) ELSE 1080,
                     <<>>, UserPassword(u), <<>>, TRUE)>>)

\* Socks5Parser.Parse (it does not ask Support)
Socks5Parse(content) ==
  Socks5Node(urlParse(IF HasPrefix(content, SchemeSocks5) THEN content
                      ELSE Replace1(content, SchemeSocks, SchemeSocks5)))

(***************************************************************************)
(* ClashParser.  A Clash document of the model is the line "proxies:"      *)
(* followed by one flow mapping per item,                                  *)
(*     - {name: a, type: ss, server: h.io, port: 443}                      *)
(* and yaml.Unmarshal is modelled for these documents; any other text is   *)
(* not a mapping with a `proxies` list and fails to unmarshal.  A value is *)
(* what YAML resolves it to: a quoted scalar is a string, true and false   *)
(* are booleans, an optionally signed run of digits is an int, any other   *)
(* plain scalar is a string.  Nested mappings (plugin-opts, ws-opts,       *)
(* grpc-opts) are not modelled.                                            *)
(***************************************************************************)
KeyProxies == Txt("proxies:")
ItemOpen   == Txt("- {")
ItemClose  == Txt("}")
FieldSep   == Txt(", ")
KeySep     == Txt(": ")
YamlTrue   == Txt("true")
YamlFalse  == Txt("false")

StrValue(s)  == [t |-> "string", s |-> s, n |-> 0, b |-> FALSE]
IntValue(n)  == [t |-> "int", s |-> <<>>, n |-> n, b |-> FALSE]
BoolValue(b) == [t |-> "bool", s |-> <<>>, n |-> 0, b |-> b]

\* the Go value of a YAML scalar decoded into an interface{}
yamlScalar(text) ==
  IF Len(text) >= 2 /\ text[1] = 34 /\ text[Len(text)] = 34
    THEN StrValue(SubSeq(text, 2, Len(text) - 1))
  ELSE IF text = YamlTrue THEN BoolValue(TRUE)
  ELSE IF text = YamlFalse THEN BoolValue(FALSE)
  ELSE IF ~Atoi(text).err THEN IntValue(Atoi(text).n)
  ELSE StrValue(text)

\* one field of an item as <<key, value>>
yamlField(kv) == <<kv[1], yamlScalar(kv[2])>>

\* the fields of an item as a map: a sequence of <<key, value>>
yamlFields(fields) ==
  IF \E i \in 1..Len(fields) : Len(SplitN2(fields[i], KeySep)) # 2
    THEN [err |-> TRUE, map |-> <<>>]
    ELSE [err |-> FALSE,
          map |-> [i \in 1..Len(fields) |-> yamlField(SplitN2(fields[i], KeySep))]]

\* what stands between the braces of an item
yamlInner(inner) ==
  yamlFields(IF inner = <<>> THEN <<>> ELSE Split(inner, FieldSep))

\* one item line as a map
yamlItem(line) ==
  IF ~HasPrefix(line, ItemOpen) \/ line[Len(line)] # 125
    THEN [err |-> TRUE, map |-> <<>>]
    ELSE yamlInner(SubSeq(line, Len(ItemOpen) + 1, Len(line) - 1))

\* config.Proxies of the decoded items
yamlProxies(items) ==
  IF \E i \in 1..Len(items) : items[i].err THEN [err |-> TRUE, Proxies |-> <<>>]
  ELSE [err |-> FALSE, Proxies |-> [i \in 1..Len(items) |-> items[i].map]]

\* the document by its non-empty lines
yamlLines(lines) ==
  IF lines = <<>> \/ lines[1] # KeyProxies THEN [err |-> TRUE, Proxies |-> <<>>]
  ELSE yamlProxies([i \in 1..(Len(lines) - 1) |-> yamlItem(lines[i + 1])])

\* yaml.Unmarshal([]byte(content), &config): config.Proxies
yamlUnmarshal(content) ==
  yamlLines(SelectSeq(Split(content, LF), LAMBDA l : l # <<>>))

MapHas(m, key) == \E i \in 1..Len(m) : m[i][1] = key
MapGet(m, key) == m[CHOOSE i \in 1..Len(m) : m[i][1] = key][2]

\* lo.ValueOr(proxyMap, key, fallback).(T): the assertion panics when the
\* key is present with a value of another type
AssertPanics(m, key, t) == MapHas(m, key) /\ MapGet(m, key).t # t

\* lo.ValueOr(proxyMap, key, "").(string), when it does not panic
StringOr(m, key) == IF MapHas(m, key) THEN MapGet(m, key).s ELSE <<>>

\* lo.ValueOr(proxyMap, key, 0).(int), when it does not panic
IntOr(m, key) == IF MapHas(m, key) THEN MapGet(m, key).n ELSE 0

\* lo.ValueOr(proxyMap, key, false).(bool), when it does not panic
BoolOr(m, key) == IF MapHas(m, key) THEN MapGet(m, key).b ELSE FALSE

KeyType     == Txt("type")
KeyName     == Txt("name")
KeyServer   == Txt("server")
KeyUDP      == Txt("udp")
KeyCipher   == Txt("cipher")
KeyPassword == Txt("password")
KeyUUID     == Txt("uuid")
KeyPsk      == Txt("psk")

\* the types of the switch of parseProxyMap
ClashTypes ==
  {TypeSS, TypeSSR, TypeVMess, TypeVLESS, TypeTrojan, TypeHTTP, TypeHTTPS,
   TypeSnell, TypeHysteria, TypeHysteria2}

\* the assertions of the case of the switch for a type, as <<key, Go type>>
CaseAssertions(type) ==
  IF type = TypeSS THEN {<<KeyCipher, "string">>, <<KeyPassword, "string">>}
  ELSE IF type = TypeSSR
    THEN {<<KeyCipher, "string">>, <<KeyPassword, "string">>,
          <<Txt("protocol"), "string">>, <<Txt("protocol-param"), "string">>,
          <<Txt("obfs"), "string">>, <<Txt("obfs-param"), "string">>}
  ELSE IF type = TypeVMess
    THEN {<<KeyUUID, "string">>, <<Txt("alterId"), "int">>, <<KeyCipher, "string">>,
          <<Txt("network"), "string">>, <<Txt("servername"), "string">>}
  ELSE IF type = TypeVLESS
    THEN {<<KeyUUID, "string">>, <<Txt("network"), "string">>,
          <<Txt("servername"), "string">>}
  ELSE IF type \in {TypeTrojan, TypeHysteria, TypeHysteria2}
    THEN {<<KeyPassword, "string">>, <<Txt("sni"), "string">>,
          <<Txt("skip-cert-verify"), "bool">>}
  ELSE IF type \in {TypeHTTP, TypeHTTPS} THEN {<<Txt("username"), "string">>}
  ELSE IF type = TypeSnell THEN {<<KeyPsk, "string">>}
  ELSE {}

\* ClashParser.parseProxyMap: [kind, node]
parseProxyMap(proxyMap) ==
  LET proxyType == IF MapHas(proxyMap, KeyType) /\ MapGet(proxyMap, KeyType).t = "string"
                     THEN MapGet(proxyMap, KeyType).s ELSE <<>>
      password  == IF proxyType = TypeSnell THEN StringOr(proxyMap, KeyPsk)
                   ELSE IF proxyType \in {TypeHTTP, TypeHTTPS}
                     THEN IF MapHas(proxyMap, KeyPassword)
                               /\ MapGet(proxyMap, KeyPassword).t = "string"
                            THEN MapGet(proxyMap, KeyPassword).s ELSE <<>>
                   ELSE IF proxyType \in {TypeVMess, TypeVLESS} THEN <<>>
                   ELSE StringOr(proxyMap, KeyPassword)
      node      == Node(proxyType, StringOr(proxyMap, KeyName),
                        StringOr(proxyMap, KeyServer), IntOr(proxyMap, KeyPort),
                        IF proxyType \in {TypeSS, TypeSSR, TypeVMess}
                          THEN StringOr(proxyMap, KeyCipher) ELSE <<>>,
                        password,
                        IF proxyType \in {TypeVMess, TypeVLESS}
                          THEN StringOr(proxyMap, KeyUUID) ELSE <<>>,
                        BoolOr(proxyMap, KeyUDP))
  IN  IF proxyType = <<>> THEN [kind |-> "err"]
      ELSE IF \/ AssertPanics(proxyMap, KeyName, "string")
              \/ AssertPanics(proxyMap, KeyServer, "string")
              \/ AssertPanics(proxyMap, KeyPort, "int")
              \/ AssertPanics(proxyMap, KeyUDP, "bool")
        THEN [kind |-> "panic"]
      ELSE IF \E a \in CaseAssertions(proxyType) : AssertPanics(proxyMap, a[1], a[2])
        THEN [kind |-> "panic"]
      ELSE IF proxyType \notin ClashTypes THEN [kind |-> "err"]
      ELSE [kind |-> "ok", node |-> node]

\* ClashParser.Support
ClashSupport(content) ==
  IF HasPrefix(content, SchemeSS) \/ HasPrefix(content, SchemeVMess)
       \/ HasPrefix(content, SchemeTrojan)
    THEN FALSE
    ELSE Contains(content, KeyProxies)

\* the loop of ClashParser.Parse over config.Proxies: an item whose
\* parseProxyMap returns an error is left out, a panic ends the call
RECURSIVE ClashItems(_, _)
ClashItem(parsed, rest, proxies) ==
  IF parsed.kind = "panic" THEN ParsePanicked
  ELSE IF parsed.kind = "err" THEN ClashItems(rest, proxies)
  ELSE ClashItems(rest, Append(proxies, parsed.node))

ClashItems(maps, proxies) ==
  IF maps = <<>> THEN Parsed(proxies)
  ELSE ClashItem(parseProxyMap(Head(maps)), Tail(maps), proxies)

ClashConfig(config) ==
  IF config.err THEN ParseFailed ELSE ClashItems(config.Proxies, <<>>)

\* ClashParser.Parse
ClashParse(content) == ClashConfig(yamlUnmarshal(content))

(***************************************************************************)
(* parser.Manager.                                                         *)
(***************************************************************************)
\* NewManager: the parsers in registry order, by their Type()
Parsers ==
  <<"clash", "ss", "ssr", "vmess", "vless", "trojan", "hysteria", "hysteria2",
    "snell", "http", "socks5">>

\* parser.Support(content) of the parser of that type
Support(parser, content) ==
  CASE parser = "clash"     -> ClashSupport(content)
    [] parser = "ss"        -> SSSupport(content)
    [] parser = "ssr"       -> SSRSupport(content)
    [] parser = "vmess"     -> VMessSupport(content)
    [] parser = "vless"     -> VLESSSupport(content)
    [] parser = "trojan"    -> TrojanSupport(content)
    [] parser = "hysteria"  -> HysteriaSupport(content)
    [] parser = "hysteria2" -> Hysteria2Support(content)
    [] parser = "snell"     -> SnellSupport(content)
    [] parser = "http"      -> HTTPSupport(content)
    [] parser = "socks5"    -> Socks5Support(content)

\* parser.Parse(ctx, content) of the parser of that type
Parse(parser, content) ==
  CASE parser = "clash"     -> ClashParse(content)
    [] parser = "ss"        -> SSParse(content)
    [] parser = "ssr"       -> SSRParse(content)
    [] parser = "vmess"     -> VMessParse(content)
    [] parser = "vless"     -> VLESSParse(content)
    [] parser = "trojan"    -> TrojanParse(content)
    [] parser = "hysteria"  -> HysteriaParse(content)
    [] parser = "hysteria2" -> Hysteria2Parse(content)
    [] parser = "snell"     -> SnellParse(content)
    [] parser = "http"      -> HTTPParse(content)
    [] parser = "socks5"    -> Socks5Parse(content)

\* splitContent
splitContent(content) == Split(content, LF)

\* cleanLine
cleanLine(line) ==
  LET trimmed == TrimSpace(line)
  IN  IF HasPrefix(trimmed, <<35>>) \/ HasPrefix(trimmed, <<47, 47>>) THEN <<>>
      ELSE trimmed

\* the first decoding without an error, else the content itself
unwrapped(content, std, raw) ==
  IF ~std.err THEN std.bytes
  ELSE IF ~raw.err THEN raw.bytes
  ELSE content

unwrap(content, trimmed) ==
  unwrapped(content, StdDecode(trimmed), RawURLDecode(trimmed))

\* an unwrap that is applied again to what the first unwrap gave
unwrapAgain(once) == unwrap(once, TrimSpace(once))

processedContentRepeated(content) == unwrapAgain(unwrap(content, TrimSpace(content)))

\* the base64 unwrap at the top of Manager.Parse
processedContent(content) == unwrap(content, TrimSpace(content))

\* the line parsers that support a line, in registry order
Supporting(line) ==
  SelectSeq(Parsers, LAMBDA parser : parser # "clash" /\ Support(parser, line))

\* a failed parse of a supported line ends Parse
abortOnError(r) == IF r.kind = "err" THEN ParsePanicked ELSE r

\* an inner loop for which a failed parse of a supported line ends Parse
LineProxiesAborting(line) ==
  IF line = <<>> \/ Supporting(line) = <<>> THEN Parsed(<<>>)
  ELSE abortOnError(Parse(Supporting(line)[1], line))

\* a failed parse of a supported line gives no proxies
skipOnError(r) == IF r.kind = "err" THEN Parsed(<<>>) ELSE r

\* the inner loop of stage 2 for one cleaned line: the first line parser in
\* registry order that supports the line parses it; the proxies it gives,
\* none when it fails or when no parser supports the line
LineProxies(line) ==
  IF line = <<>> \/ Supporting(line) = <<>> THEN Parsed(<<>>)
  ELSE skipOnError(Parse(Supporting(line)[1], line))

\* stage 2 of Manager.Parse over the lines; allProxies holds the proxies
\* of the lines before
RECURSIVE ParseLines(_, _)
ParseLine(r, rest, all) ==
  IF r.kind = "panic" THEN ParsePanicked
  ELSE ParseLines(rest, all \o r.proxies)

ParseLines(lines, all) ==
  IF lines = <<>> THEN Parsed(all)
  ELSE ParseLine(LineProxies(cleanLine(Head(lines))), Tail(lines), all)

\* stage 1 of Manager.Parse applies: the Clash parser takes the document
WholeDocument(content) == ClashSupport(processedContent(content))

\* the two stages of Manager.Parse on the unwrapped content
ParseStages(processed) ==
  IF ClashSupport(processed) THEN ClashParse(processed)
  ELSE ParseLines(splitContent(processed), <<>>)

\* Manager.Parse
ManagerParse(content) == ParseStages(processedContent(content))

(***************************************************************************)
(* Service.detectFormat.                                                   *)
(***************************************************************************)
detectFormat(content) ==
  IF Contains(content, SchemeSS) \/ Contains(content, SchemeSSR) THEN "shadowsocks"
  ELSE IF Contains(content, SchemeVMess) THEN "vmess"
  ELSE IF Contains(content, SchemeTrojan) THEN "trojan"
  ELSE IF Contains(content, SchemeVLESS) THEN "vless"
  ELSE IF Contains(content, SchemeHysteria) THEN "hysteria"
  ELSE IF Contains(content, SchemeHysteria2) THEN "hysteria2"
  ELSE IF Contains(content, SchemeSnell) THEN "snell"
  ELSE "unknown"

(***************************************************************************)
(* The Transform Stage: Service.applyFilters.                              *)
(***************************************************************************)
\* Options of the model: the fields applyFilters reads.
NoOptions ==
  [include |-> <<>>, exclude |-> <<>>, rename |-> <<>>, emoji |-> <<>>,
   sort |-> FALSE]

\* include filter (lo.Filter is SelectSeq)
IncludeStep(proxies, options) ==
  IF Len(options.include) > 0
    THEN LET keep(p) == MatchesAny(p.name, options.include)
         IN  SelectSeq(proxies, keep)
    ELSE proxies

\* an exclude filter that spares the proxies an include pattern matches
ExcludeStepUnlessIncluded(proxies, options) ==
  IF Len(options.exclude) > 0
    THEN LET keep(p) == \/ ~MatchesAny(p.name, options.exclude)
                        \/ MatchesAny(p.name, options.include)
         IN  SelectSeq(proxies, keep)
    ELSE proxies

\* exclude filter
ExcludeStep(proxies, options) ==
  IF Len(options.exclude) > 0
    THEN LET keep(p) == ~MatchesAny(p.name, options.exclude)
         IN  SelectSeq(proxies, keep)
    ELSE proxies

\* the rename rules applied to one name, in rule order
RECURSIVE RenameName(_, _)
RenameName(name, rules) ==
  IF rules = <<>> THEN name
  ELSE RenameName(ReplaceAll(name, Head(rules).match, Head(rules).replace),
                  Tail(rules))

RenameStep(proxies, options) ==
  [i \in 1..Len(proxies) |->
     [proxies[i] EXCEPT !.name = RenameName(@, options.rename)]]

\* the emoji rules applied to one name, in rule order: every rule whose
\* match occurs in the current name prepends its emoji and a space
RECURSIVE EmojiName(_, _)
EmojiName(name, rules) ==
  IF rules = <<>> THEN name
  ELSE EmojiName(IF Contains(name, Head(rules).match)
                   THEN Head(rules).emoji \o <<0>> \o name
                   ELSE name,
                 Tail(rules))

EmojiStep(proxies, options) ==
  [i \in 1..Len(proxies) |->
     [proxies[i] EXCEPT !.name = EmojiName(@, options.emoji)]]

\* sort.Slice(result, less) with less(i, j) == result[i].Name < result[j].Name.
\* For slices of at most 12 elements sort.Slice runs an insertion sort:
\* element i moves left while it is less than its left neighbour.
RECURSIVE InsertLeft(_, _)
InsertLeft(sorted, p) ==
  IF sorted = <<>> THEN <<p>>
  ELSE IF StrLess(p.name, sorted[Len(sorted)].name)
    THEN InsertLeft(SubSeq(sorted, 1, Len(sorted) - 1), p)
           \o <<sorted[Len(sorted)]>>
  ELSE sorted \o <<p>>

RECURSIVE SortSlice(_)
SortSlice(list) ==
  IF list = <<>> THEN <<>>
  ELSE InsertLeft(SortSlice(SubSeq(list, 1, Len(list) - 1)), list[Len(list)])

\* the length up to which sort.Slice (pdqsort_func) runs the insertion sort
maxInsertion == 12

\* the orders in which the proxies at the indices `rest` can follow one
\* another with names that never decrease
RECURSIVE SortedOrders(_, _)
SortedOrders(list, rest) ==
  IF rest = {} THEN {<<>>}
  ELSE LET least == {i \in rest : \A j \in rest : ~StrLess(list[j].name, list[i].name)}
       IN  UNION {{<<list[i]>> \o tail : tail \in SortedOrders(list, rest \ {i})} :
                    i \in least}

\* what sort.Slice can leave in the slice.  Up to maxInsertion elements it
\* is the insertion sort above; a longer slice is partitioned around a pivot
\* by swaps over long distances, and sort.Slice does not promise the order
\* of elements that compare equal: every order of them is an outcome.
SortOutcomes(list) ==
  IF Len(list) <= maxInsertion THEN {SortSlice(list)}
  ELSE SortedOrders(list, 1..Len(list))

\* a sort step that sorts whether or not the option asks for it
SortStepAlways(proxies, options) == SortSlice(proxies)

SortStep(proxies, options) ==
  IF options.sort THEN SortSlice(proxies) ELSE proxies

\* key := fmt.Sprintf("%s:%d:%s", p.Server, p.Port, p.Type).  The type has
\* no colon and the port is a number, so the key determines the triple.
DedupKey(p) == <<p.server, p.port, p.type>>

\* a dedup loop that keeps the last proxy of every key
RECURSIVE DedupFromLast(_, _)
DedupFromLast(list, seen) ==
  IF list = <<>> THEN <<>>
  ELSE IF \E k \in 2..Len(list) : DedupKey(list[k]) = DedupKey(Head(list))
    THEN DedupFromLast(Tail(list), seen)
  ELSE <<Head(list)>> \o DedupFromLast(Tail(list), seen)

\* the dedup loop: keep the first proxy of every key
RECURSIVE DedupFrom(_, _)
DedupFrom(list, seen) ==
  IF list = <<>> THEN <<>>
  ELSE IF DedupKey(Head(list)) \in seen THEN DedupFrom(Tail(list), seen)
  ELSE <<Head(list)>> \o DedupFrom(Tail(list), seen \cup {DedupKey(Head(list))})

DedupStep(proxies) == DedupFrom(proxies, {})

\* the list that reaches the sort step
beforeSort(proxies, options) ==
  EmojiStep(
    RenameStep(
      ExcludeStep(
        IncludeStep(proxies, options), options), options), options)

\* the list that reaches the dedup step
beforeDedup(proxies, options) == SortStep(beforeSort(proxies, options), options)

applyFilters(proxies, options) ==
  DedupStep(
    SortStep(
      EmojiStep(
        RenameStep(
          ExcludeStep(
            IncludeStep(proxies, options), options), options), options), options))

(***************************************************************************)
(* Inputs of the Transform Stage taken alone.                              *)
(***************************************************************************)
SeqsUpTo(S, n) == UNION {[1..k -> S] : k \in 0..n}

Range(f) == {f[x] : x \in DOMAIN f}

TNames   == {<<1>>, <<2>>, <<1, 2>>}
TServers == {"h1", "h2"}

\* a proxy as a parser returns it; the id is given by the caller
MkProxy(id, name, server, password) ==
  [id |-> id, type |-> "ss", name |-> name, server |-> server, port |-> 443,
   password |-> password]

TShapes == TNames \X TServers

\* every list of at most MaxLen proxies; the id of a proxy is its position
TLists ==
  {[i \in 1..Len(s) |-> MkProxy(i, s[i][1], s[i][2], "")] :
     s \in SeqsUpTo(TShapes, MaxLen)}

TPatterns == {<<>>, <<<<1>>>>, <<<<2>>>>, <<<<1, 2>>, <<2>>>>}
TRenames  == {<<>>,
              <<[match |-> <<1>>, replace |-> <<2>>]>>,
              <<[match |-> <<2>>, replace |-> <<2, 2>>]>>}
TEmojis   == {<<>>, <<[match |-> <<1>>, emoji |-> <<3>>]>>}

TOptions ==
  [include : TPatterns, exclude : TPatterns, rename : TRenames,
   emoji : TEmojis, sort : BOOLEAN]


(***************************************************************************)
(* The response cache: MemoryCache.  `data` is a function whose domain is  *)
(* the set of keys present.                                                *)
(***************************************************************************)
\* a nil []byte
Nil == <<>>

\* a Get for which an entry is expired already at its expiry time
MemoryGetExpiresEarly(data, key, t) ==
  IF key \notin DOMAIN data \/ t >= data[key].expiry THEN Nil
  ELSE data[key].value

\* MemoryCache.Get: a missing or expired entry is (nil, nil)
MemoryGet(data, key, t) ==
  IF key \notin DOMAIN data \/ t > data[key].expiry THEN Nil
  ELSE data[key].value

\* MemoryCache.Set
MemorySet(data, key, value, ttl, t) ==
  [k \in DOMAIN data \cup {key} |->
     IF k = key THEN [value |-> value, expiry |-> t + ttl] ELSE data[k]]

\* a sweep that empties the map
CleanupSweepAll(data, t) ==
  [k \in {x \in DOMAIN data : FALSE} |-> data[k]]

\* one sweep of MemoryCache.cleanup
CleanupSweep(data, t) ==
  [k \in {x \in DOMAIN data : ~(t > data[x].expiry)} |-> data[k]]

(***************************************************************************)
(* encoding/json on ConvertResponse and Proxy: an object is the sequence   *)
(* of its <<key, value>> members in field order; omitempty fields with a   *)
(* zero value are left out, and a missing member decodes to the zero value.*)
(***************************************************************************)
HasMember(obj, k) == \E i \in 1..Len(obj) : obj[i][1] = k
Member(obj, k) == obj[CHOOSE i \in 1..Len(obj) : obj[i][1] = k][2]

MarshalProxy(p) ==
  << <<"id", p.id>>, <<"type", p.type>>, <<"name", p.name>>,
     <<"server", p.server>>, <<"port", p.port>> >>
  \o (IF p.password = "" THEN <<>> ELSE << <<"password", p.password>> >>)

UnmarshalProxy(obj) ==
  [id       |-> Member(obj, "id"),
   type     |-> Member(obj, "type"),
   name     |-> Member(obj, "name"),
   server   |-> Member(obj, "server"),
   port     |-> Member(obj, "port"),
   password |-> IF HasMember(obj, "password") THEN Member(obj, "password")
                ELSE ""]

\* json.Marshal(resp)
MarshalResponse(resp) ==
  << <<"config", resp.config>>, <<"format", resp.format>>,
     <<"proxies", [i \in 1..Len(resp.proxies) |-> MarshalProxy(resp.proxies[i])]>>,
     <<"generated", resp.generated>> >>

\* cached bytes that are not JSON: a document cut short
Corrupt == <<"{">>

\* a json.Unmarshal that takes bytes that are not JSON for an empty response
UnmarshalResponseLenient(bytes) ==
  IF bytes = Nil THEN [err |-> TRUE]
  ELSE IF bytes = Corrupt
    THEN [err  |-> FALSE,
          resp |-> [config |-> <<>>, format |-> "", proxies |-> <<>>,
                    generated |-> 0]]
  ELSE [err  |-> FALSE,
        resp |-> [config    |-> Member(bytes, "config"),
                  format    |-> Member(bytes, "format"),
                  proxies   |-> [i \in 1..Len(Member(bytes, "proxies")) |->
                                   UnmarshalProxy(Member(bytes, "proxies")[i])],
                  generated |-> Member(bytes, "generated")]]

\* json.Unmarshal(cached, &resp): nil bytes and bytes cut short are not a
\* JSON document
UnmarshalResponse(bytes) ==
  IF bytes = Nil \/ bytes = Corrupt THEN [err |-> TRUE]
  ELSE [err  |-> FALSE,
        resp |-> [config    |-> Member(bytes, "config"),
                  format    |-> Member(bytes, "format"),
                  proxies   |-> [i \in 1..Len(Member(bytes, "proxies")) |->
                                   UnmarshalProxy(Member(bytes, "proxies")[i])],
                  generated |-> Member(bytes, "generated")]]

(***************************************************************************)
(* Service.Convert and its helpers.                                        *)
(***************************************************************************)
\* Service.RegisterGenerators
Registered == {"clash", "surge", "quantumult", "loon", "v2ray", "surfboard"}

\* validateRequest without the check of the URL list
validateRequestNoURLs(r) ==
  IF r.target = "" THEN "INVALID_TARGET"
  ELSE IF r.target \notin Registered THEN "UNSUPPORTED_TARGET"
  ELSE ""

\* Service.validateRequest: "" when the request is accepted
validateRequest(r) ==
  IF r.target = "" THEN "INVALID_TARGET"
  ELSE IF Len(r.urls) = 0 THEN "INVALID_URLS"
  ELSE IF r.target \notin Registered THEN "UNSUPPORTED_TARGET"
  ELSE ""

\* sort.Strings on the copy of the URLs (URLs are numbers in the model)
RECURSIVE InsertURL(_, _)
InsertURL(sorted, u) ==
  IF sorted = <<>> THEN <<u>>
  ELSE IF u < sorted[Len(sorted)]
    THEN InsertURL(SubSeq(sorted, 1, Len(sorted) - 1), u) \o <<sorted[Len(sorted)]>>
  ELSE sorted \o <<u>>

RECURSIVE SortStrings(_)
SortStrings(urls) ==
  IF urls = <<>> THEN <<>>
  ELSE InsertURL(SortStrings(SubSeq(urls, 1, Len(urls) - 1)), urls[Len(urls)])

\* Service.generateCacheKey: "convert:<target>:<sorted urls joined>"
generateCacheKey(r) == <<"convert", r.target, SortStrings(r.urls)>>

\* the goroutine of fetchSubscriptions for source i: what it sends on the
\* channel, given what httpClient.Get and parserManager.Parse produced
\* (o.err is "", "fetch" or "parse"); a cancelled context fails the Get
TaskResult(i, o, ctxCancelled) ==
  IF ctxCancelled THEN [src |-> i, err |-> "fetch", proxies |-> <<>>]
  ELSE IF o.err # "" THEN [src |-> i, err |-> o.err, proxies |-> <<>>]
  ELSE [src |-> i, err |-> "",
        proxies |-> [k \in 1..Len(o.shapes) |->
                       MkProxy(<<i, k>>, o.shapes[k][1], o.shapes[k][2],
                               o.shapes[k][3])]]

\* a collect loop that gives up at the first failed source
RECURSIVE CollectUntilError(_)
CollectUntilError(chan) ==
  IF chan = <<>> THEN <<>>
  ELSE IF Head(chan).err # "" THEN <<>>
  ELSE Head(chan).proxies \o CollectUntilError(Tail(chan))

\* the collect loop of fetchSubscriptions over the closed channel
RECURSIVE Collect(_)
Collect(chan) ==
  IF chan = <<>> THEN <<>>
  ELSE IF Head(chan).err # "" THEN Collect(Tail(chan))
  ELSE Head(chan).proxies \o Collect(Tail(chan))

\* fetchSubscriptions without the check for an empty list
fetchSubscriptionsUnchecked(chan) ==
  [err |-> "", proxies |-> Collect(chan)]

\* what fetchSubscriptions returns once every task has sent its result
fetchSubscriptions(chan) ==
  LET all == Collect(chan)
  IN  IF Len(all) = 0 THEN [err |-> "NO_PROXIES", proxies |-> <<>>]
      ELSE [err |-> "", proxies |-> all]

\* generatorManager.Generate: the configuration is a function of the target
\* and of the proxies it is given; the default proxy groups list every name
Generate(target, proxies) ==
  [format  |-> target,
   proxies |-> [i \in 1..Len(proxies) |->
                  <<proxies[i].name, proxies[i].type, proxies[i].server,
                    proxies[i].port, proxies[i].password>>],
   groups  |-> [i \in 1..Len(proxies) |-> proxies[i].name]]

\* the response Convert builds from the fetched proxies
BuildResponse(r, fetched, t) ==
  LET filteredProxies == applyFilters(fetched, r.options)
  IN  [config    |-> Generate(r.target, filteredProxies),
       format    |-> r.target,
       proxies   |-> filteredProxies,
       generated |-> t]

\* the bytes Convert stores in the cache for the response it returns
CacheData(resp) == MarshalResponse(resp)

NoRequest == [target |-> "none", urls |-> <<>>, options |-> NoOptions]
NoOutcome == [kind |-> "none"]
NoResp    == [config |-> Generate("none", <<>>), format |-> "none", proxies |-> <<>>,
              generated |-> 0]


(***************************************************************************)
(* Inputs of Convert.                                                      *)
(***************************************************************************)
\* what one source can deliver: a fetch error, a parse error, or the
\* proxies of its document as <<name, server, password>> shapes
Failure(kind) == [err |-> kind, shapes |-> <<>>]
Content(shapes) == [err |-> "", shapes |-> shapes]

DocEmpty == Content(<<>>)
DocBA    == Content(<< <<<<2>>, "h1", "">>, <<<<1>>, "h2", "">> >>)
DocA     == Content(<< <<<<1>>, "h1", "">> >>)
DocAPw   == Content(<< <<<<1>>, "h1", "pw">> >>)

Outcomes     == {Failure("fetch"), Failure("parse"), DocEmpty, DocBA, DocA, DocAPw}
LeanOutcomes == {Failure("fetch"), DocBA, DocA}

OptSort  == [NoOptions EXCEPT !.sort = TRUE]
OptEmoji == [NoOptions EXCEPT !.emoji = <<[match |-> <<1>>, emoji |-> <<3>>]>>,
                              !.sort = TRUE]
OptFilter == [NoOptions EXCEPT !.include = << <<1>> >>,
                               !.rename = <<[match |-> <<1>>, replace |-> <<2, 1>>]>>]

URLPool == 1..2

Requests ==
  [target  : {"clash", "", "trojan-go"},
   urls    : SeqsUpTo(URLPool, MaxURLs),
   options : {NoOptions, OptSort, OptEmoji, OptFilter}]

LeanRequests ==
  [target  : {"clash"},
   urls    : {<<1>>, <<1, 2>>, <<2, 1>>},
   options : {NoOptions, OptSort}]
    \cup {[target |-> "", urls |-> <<1>>, options |-> NoOptions]}

(***************************************************************************)
(* Actions of Convert.                                                     *)
(***************************************************************************)
\* Convert up to the fan-out: validation, the cache lookup and the start of
\* one goroutine per URL.  `limit` bounds the number of calls; `got` is what
\* s.cache.Get returned, as [err, value].
ConvertLookup(r, limit, got) ==
  /\ pc \in {"idle", "done"}
  /\ nreq < limit
  /\ nreq' = nreq + 1
  /\ req' = r
  /\ cancelled' = FALSE
  /\ results' = <<>>
  /\ allProxies' = <<>>
  /\ fetches' = 0
  /\ cacheWrites' = 0
  /\ generated' = FALSE
  /\ warm' = (r = prevReq /\ now <= prevExpiry)
  /\ UNCHANGED <<cache, now, prevReq, prevResp, prevExpiry>>
  /\ IF validateRequest(r) # ""
       THEN /\ pc' = "done"
            /\ outcome' = [kind |-> "err", code |-> validateRequest(r)]
            /\ cacheReads' = 0
            /\ tasks' = <<>>
       ELSE LET decoded == IF got.err THEN [err |-> TRUE]
                           ELSE UnmarshalResponse(got.value)
            IN  /\ cacheReads' = 1
                /\ IF ~decoded.err
                     THEN /\ pc' = "done"
                          /\ outcome' = [kind |-> "ok", resp |-> decoded.resp]
                          /\ tasks' = <<>>
                     ELSE /\ pc' = "fetching"
                          /\ outcome' = NoOutcome
                          /\ tasks' = [i \in 1..Len(r.urls) |-> "running"]

\* MemoryCache.Get as Convert calls it: it never returns an error
CacheGet(r) == [err |-> FALSE, value |-> MemoryGet(cache, generateCacheKey(r), now)]

\* a cache.Get that returns an error, as RedisCache.Get can; the bytes are nil
CacheGetError == [err |-> TRUE, value |-> Nil]

\* Convert up to the fan-out on the MemoryCache of NewService
ConvertBegin(r, limit) == ConvertLookup(r, limit, CacheGet(r))

\* a channel with one place too few
resultsCapShort(urls) == Len(urls) - 1

\* results := make(chan result, len(urls)): the capacity of the channel
resultsCap(urls) == Len(urls)

\* the goroutine for source i runs to its send: Get, Parse, results <- ...;
\* the send waits while the channel is full
FetchTask(i, o) ==
  /\ pc = "fetching"
  /\ i \in DOMAIN tasks
  /\ tasks[i] = "running"
  /\ Len(results) < resultsCap(req.urls)
  /\ tasks' = [tasks EXCEPT ![i] = "done"]
  /\ results' = Append(results, TaskResult(i, o, cancelled))
  /\ fetches' = fetches + 1
  /\ UNCHANGED <<cache, now, pc, req, cancelled, allProxies, outcome, nreq,
                 cacheReads, cacheWrites, generated, prevReq, prevResp,
                 prevExpiry, warm>>

\* wg.Wait, close(results), the collect loop and the NO_PROXIES check; the
\* loop ends because the channel is closed
FetchJoin ==
  /\ pc = "fetching"
  /\ \A i \in DOMAIN tasks : tasks[i] = "done"
  /\ LET fetched == fetchSubscriptions(results)
     IN  IF fetched.err # ""
           THEN /\ pc' = "done"
                /\ outcome' = [kind |-> "err", code |-> fetched.err]
                /\ allProxies' = <<>>
           ELSE /\ pc' = "fetched"
                /\ outcome' = outcome
                /\ allProxies' = fetched.proxies
  /\ UNCHANGED <<cache, now, req, cancelled, tasks, results, nreq, fetches,
                 cacheReads, cacheWrites, generated, prevReq, prevResp,
                 prevExpiry, warm>>

\* the rest of Convert: applyFilters, Generate, the response, cache.Set,
\* whose error Convert does not look at; `setErr` says that Set returned an
\* error and stored nothing
ConvertStore(setErr) ==
  /\ pc = "fetched"
  /\ LET resp == BuildResponse(req, allProxies, now)
     IN  /\ cache' = IF setErr THEN cache
                     ELSE MemorySet(cache, generateCacheKey(req), CacheData(resp),
                                    CacheTTL, now)
         /\ outcome' = [kind |-> "ok", resp |-> resp]
         /\ prevResp' = IF setErr THEN prevResp ELSE resp
  /\ prevReq' = IF setErr THEN prevReq ELSE req
  /\ prevExpiry' = IF setErr THEN prevExpiry ELSE now + CacheTTL
  /\ cacheWrites' = cacheWrites + 1
  /\ generated' = TRUE
  /\ pc' = "done"
  /\ UNCHANGED <<now, req, cancelled, tasks, results, allProxies, nreq,
                 fetches, cacheReads, warm>>

\* the rest of Convert on the MemoryCache of NewService, whose Set never fails
ConvertFinish == ConvertStore(FALSE)

\* between two calls the bytes stored under a key are damaged
CorruptEntry ==
  /\ pc = "done"
  /\ \E k \in DOMAIN cache :
        /\ cache[k].value # Corrupt
        /\ cache' = [cache EXCEPT ![k].value = Corrupt]
  /\ pc' = "idle"
  /\ UNCHANGED <<now, req, cancelled, tasks, results, allProxies, outcome,
                 nreq, fetches, cacheReads, cacheWrites, generated, prevReq,
                 prevResp, prevExpiry, warm>>

\* the caller cancels the context of the running Convert call
Cancel ==
  /\ pc \in {"fetching", "fetched"}
  /\ ~cancelled
  /\ cancelled' = TRUE
  /\ UNCHANGED <<cache, now, pc, req, tasks, results, allProxies, outcome,
                 nreq, fetches, cacheReads, cacheWrites, generated, prevReq,
                 prevResp, prevExpiry, warm>>

\* time passes
Tick ==
  /\ now < MaxClock
  /\ now' = now + 1
  /\ UNCHANGED <<cache, pc, req, cancelled, tasks, results, allProxies,
                 outcome, nreq, fetches, cacheReads, cacheWrites, generated,
                 prevReq, prevResp, prevExpiry, warm>>

\* the ticker of MemoryCache.cleanup fires
Cleanup ==
  /\ CleanupSweep(cache, now) # cache
  /\ cache' = CleanupSweep(cache, now)
  /\ UNCHANGED <<now, pc, req, cancelled, tasks, results, allProxies,
                 outcome, nreq, fetches, cacheReads, cacheWrites, generated,
                 prevReq, prevResp, prevExpiry, warm>>

(***************************************************************************)
(* Actions of the Transform Stage taken alone.                             *)
(***************************************************************************)
TransformOnce ==
  /\ tpc = "in"
  /\ tout1' = applyFilters(tin, topts)
  /\ tpc' = "once"
  /\ UNCHANGED <<tin, topts, tout2>>

TransformAgain ==
  /\ tpc = "once"
  /\ tout2' = applyFilters(tout1, topts)
  /\ tpc' = "twice"
  /\ UNCHANGED <<tin, topts, tout1>>

(***************************************************************************)
(* Inputs of the parsers.                                                  *)
(***************************************************************************)
MaxLines == 2   \* most lines of a line-based subscription
MaxItems == 2   \* most items of a Clash document

\* lines joined by LF
RECURSIVE JoinLines(_)
JoinLines(lines) ==
  IF lines = <<>> THEN <<>>
  ELSE IF Len(lines) = 1 THEN lines[1]
  ELSE lines[1] \o LF \o JoinLines(Tail(lines))

\* ss://<base64(METHOD:PASSWORD)>@HOST:PORT#NAME, the port in decimal
SIP002Link(method, password, host, port, name) ==
  SchemeSS \o StdEncode(method \o Colon \o password) \o At \o host \o Colon
    \o port \o <<35>> \o name

SIPMethods   == {Txt("aes-256-gcm")}
SIPPasswords == {Txt("test"), Txt("p")}
SIPHosts     == {Txt("127.0.0.1"), Txt("h.io")}
SIPPorts     == {Txt("8388"), Txt("443")}
SIPNames     == {Txt("Test"), Txt("A")}

SIP002Links ==
  {SIP002Link(m, pw, h, p, n) :
     m \in SIPMethods, pw \in SIPPasswords, h \in SIPHosts, p \in SIPPorts,
     n \in SIPNames}

\* the example of the SS parser test
LineSSExample == Txt("ss://YWVzLTI1Ni1nY206dGVzdA==@127.0.0.1:8388#Test")
\* the legacy form: the whole of method:password@server:port in base64
LineSSLegacy  == SchemeSS \o StdEncode(Txt("aes-256-gcm:test@h.io:8388"))
LineSSPlain   == Txt("ss://aes-256-gcm:test@h.io:8388#A")
LineSSPort0   == SchemeSS \o StdEncode(Txt("aes-256-gcm:test@h.io:0"))
LineSSPortBig == SchemeSS \o StdEncode(Txt("aes-256-gcm:test@h.io:70000"))
LineSSPortNeg == SchemeSS \o StdEncode(Txt("aes-256-gcm:test@h.io:-1"))
LineSSRGood   == SchemeSSR \o StdEncode(Txt("h.io:443:origin:aes-256-cfb:plain:cHc"))
LineSSRNamed  == SchemeSSR \o StdEncode(Txt("h.io:443:origin:aes-256-cfb:plain:cHc/?remarks=Ug"))
LineVMessGood == SchemeVMess \o
  StdEncode(Txt("{\"ps\":\"V\",\"add\":\"h.io\",\"port\":\"443\",\"id\":\"u\"}"))
LineVMessNoPS == SchemeVMess \o
  StdEncode(Txt("{\"add\":\"h.io\",\"port\":\"443\",\"id\":\"u\"}"))
LineVMessBad  == Txt("vmess://invalid")
LineVLESSGood == Txt("vless://u@h.io:443#V")
LineVLESSNoPort == Txt("  vless://u@h.io#V  ")
LineTrojanGood  == Txt("trojan://pw@h.io:443#T")
LineTrojanNoName == Txt("trojan://pw@h.io:443")
LineTrojanNoPort == Txt("trojan://pw@h.io")
LineHysteria  == Txt("hysteria://pw@h.io:0#H")
LineHysteria2 == Txt("hysteria2://pw@h.io:99999#H")
LineSnell     == Txt("snell://psk@h.io:443")
LineHTTP      == Txt("https://u:p@h.io")
LineSocks     == Txt("socks://h.io:1080#S")
LineTuic      == Txt("tuic://x@h.io:1")
LineComment   == Txt("# note")
LineSlashes   == Txt("// note")
LineBlank     == <<>>
LineText      == Txt("invalid line")

\* the lines of the documents given to the Manager
DocLines ==
  {LineSSExample, LineSSLegacy, LineTrojanGood, LineTrojanNoPort,
   LineVMessGood, LineVLESSNoPort, LineTuic, LineComment, LineBlank}

LineDocs == {JoinLines(l) : l \in SeqsUpTo(DocLines, MaxLines)}

ItemSS        == Txt("- {name: a, type: ss, server: h.io, port: 443, cipher: aes-256-gcm, password: pw}")
ItemVMess     == Txt("- {name: b, type: vmess, server: h.io, port: 443, uuid: u}")
ItemWireguard == Txt("- {name: c, type: wireguard, server: h.io, port: 51820}")
ItemNoName    == Txt("- {type: trojan, server: h.io, port: 443, password: pw}")
ItemPortText  == Txt("- {name: e, type: ss, server: h.io, port: \"443\"}")
ItemNoType    == Txt("- {name: f, server: h.io, port: 443}")
ItemNoPort    == Txt("- {name: g, type: http, server: h.io}")

DocItems ==
  {ItemSS, ItemVMess, ItemWireguard, ItemNoName, ItemPortText, ItemNoType,
   ItemNoPort}

ClashDocs == {JoinLines(<<KeyProxies>> \o l) : l \in SeqsUpTo(DocItems, MaxItems)}

\* the contents given to the Manager
Contents == LineDocs \cup ClashDocs

\* the contents given to one parser
ParserInputs ==
  SIP002Links \cup
  {LineSSExample, LineSSLegacy, LineSSPlain, LineSSPort0, LineSSPortBig,
   LineSSPortNeg, LineSSRGood, LineSSRNamed, LineVMessGood, LineVMessNoPS,
   LineVMessBad, LineVLESSGood, LineVLESSNoPort, LineTrojanGood,
   LineTrojanNoName, LineTrojanNoPort, LineHysteria, LineHysteria2, LineSnell,
   LineHTTP, LineSocks, LineTuic, LineText,
   JoinLines(<<KeyProxies, ItemSS, ItemNoPort>>),
   JoinLines(<<KeyProxies, ItemWireguard, ItemNoName>>)}

(***************************************************************************)
(* Inputs of the Transform Stage beyond the insertion sort.                *)
(***************************************************************************)
MaxOver == 1   \* how far the longest list goes beyond maxInsertion

\* the name two proxies of a list share
TieName == <<6>>

\* n - 2 names other than TieName, going up or going down
OtherNames(n, up) ==
  LET names == SelectSeq([k \in 1..(n - 1) |-> <<k>>], LAMBDA name : name # TieName)
  IN  IF up THEN names ELSE [k \in 1..Len(names) |-> names[Len(names) + 1 - k]]

\* a list of n proxies: at i and at j > i two proxies with the same name and
\* the same (server, port, type), told apart by the password; elsewhere
\* proxies with names and ports of their own; the id is the position
SList(n, i, j, up) ==
  [k \in 1..n |->
     IF k = i THEN MkProxy(k, TieName, "h1", "")
     ELSE IF k = j THEN MkProxy(k, TieName, "h1", "pw")
     ELSE LET others == OtherNames(n, up)
              o      == k - (IF k > i THEN 1 ELSE 0) - (IF k > j THEN 1 ELSE 0)
          IN  [MkProxy(k, others[o], "h2", "") EXCEPT !.port = 1000 + others[o][1]]]

SShapes ==
  {q \in (maxInsertion..(maxInsertion + MaxOver)) \X (1..(maxInsertion + MaxOver))
           \X (1..(maxInsertion + MaxOver)) \X BOOLEAN :
     q[2] < q[3] /\ q[3] <= q[1]}

SLists == {SList(q[1], q[2], q[3], q[4]) : q \in SShapes}

(***************************************************************************)
(* Actions of the parsers.                                                 *)
(***************************************************************************)
\* parser.Parse(ctx, lin) of one parser of the registry
ParserParse(parser) ==
  /\ lpc = "in"
  /\ lparser' = parser
  /\ lout' = Parse(parser, lin)
  /\ lpc' = "done"
  /\ UNCHANGED lin

\* Service.Validate once the content has been fetched: Manager.Parse, then
\* detectFormat unless Parse returned an error or panicked
Validate ==
  /\ mpc = "in"
  /\ mout' = ManagerParse(mcontent)
  /\ mformat' = IF mout'.kind = "ok" THEN detectFormat(mcontent) ELSE ""
  /\ mpc' = "validated"
  /\ UNCHANGED <<mcontent, mwrapped, mtwice>>

\* Manager.Parse on the content encoded once and twice in standard base64
ParseEncoded ==
  /\ mpc = "validated"
  /\ mwrapped' = ManagerParse(StdEncode(mcontent))
  /\ mtwice' = ManagerParse(StdEncode(StdEncode(mcontent)))
  /\ mpc' = "encoded"
  /\ UNCHANGED <<mcontent, mout, mformat>>

\* applyFilters with the sort option on a list of maxInsertion proxies or
\* more: the steps before the sort, sort.Slice, the dedup loop
TransformLong ==
  /\ spc = "in"
  /\ \E sorted \in SortOutcomes(beforeSort(sin, OptSort)) :
        /\ ssorted' = sorted
        /\ sout' = DedupStep(sorted)
  /\ spc' = "done"
  /\ UNCHANGED sin

(***************************************************************************)
(* Specifications.                                                         *)
(***************************************************************************)
ConvertInit ==
  /\ cache = <<>>
  /\ now = 0
  /\ pc = "idle"
  /\ req = NoRequest
  /\ cancelled = FALSE
  /\ tasks = <<>>
  /\ results = <<>>
  /\ allProxies = <<>>
  /\ outcome = NoOutcome
  /\ nreq = 0
  /\ fetches = 0
  /\ cacheReads = 0
  /\ cacheWrites = 0
  /\ generated = FALSE
  /\ prevReq = NoRequest
  /\ prevResp = NoResp
  /\ prevExpiry = 0
  /\ warm = FALSE

TransformOff ==
  /\ tpc = "off"
  /\ tin = <<>>
  /\ topts = NoOptions
  /\ tout1 = <<>>
  /\ tout2 = <<>>

ParserOff ==
  /\ lpc = "off"
  /\ lin = <<>>
  /\ lparser = ""
  /\ lout = ParseFailed

ManagerOff ==
  /\ mpc = "off"
  /\ mcontent = <<>>
  /\ mout = ParseFailed
  /\ mformat = ""
  /\ mwrapped = ParseFailed
  /\ mtwice = ParseFailed

FaultOff ==
  /\ lookup = "none"
  /\ writeFailed = FALSE

SortOff ==
  /\ spc = "off"
  /\ sin = <<>>
  /\ ssorted = <<>>
  /\ sout = <<>>

RulesOff ==
  /\ rpc = "off"
  /\ rsets = <<>>
  /\ rcustom = <<>>
  /\ rclash = <<>>
  /\ rsurge = <<>>

\* the keys the callers of the MemoryCache use
MemKeys == {"a", "b"}

NoSet == [value |-> <<>>, expiry |-> -1]

NoGet == [key |-> "", value |-> <<>>, due |-> <<>>]

\* NewMemoryCache: an empty map
MemoryInit ==
  /\ kdata = <<>>
  /\ know = 0
  /\ klast = [k \in MemKeys |-> NoSet]
  /\ kgot = NoGet
  /\ kswept = [at |-> 0, deleted |-> {}]

MaxCallers == 2   \* conversions running at the same time

Callers == 1..MaxCallers

\* template.NewManager: an empty cache, nobody inside LoadTemplate
TemplateInit ==
  /\ ppc = [g \in Callers |-> "idle"]
  /\ pname = [g \in Callers |-> ""]
  /\ pret = [g \in Callers |-> ""]
  /\ pcache = {}
  /\ pfatal = FALSE

NoFail == [id |-> "", e |-> "", stored |-> FALSE, panic |-> FALSE, ret |-> ""]

NoJob == [ID |-> "", Status |-> "", Error |-> ""]

QueueOff ==
  /\ qimpl = ""
  /\ qstore = <<>>
  /\ qfail = NoFail
  /\ qgot = [job |-> NoJob, err |-> ""]

MaxJobs    == 2   \* Job objects handed to Push
MaxWorkers == 2   \* numWorkers of Worker.Start

\* NewMemoryQueue and Worker.Start: nothing pushed, every worker at Pop
WorkersInit ==
  /\ wjob = [j \in 1..MaxJobs |-> [ID |-> 0, Status |-> ""]]
  /\ wpush = [j \in 1..MaxJobs |-> "new"]
  /\ wmap = <<>>
  /\ wchan = <<>>
  /\ wpc = [w \in 1..MaxWorkers |-> "pop"]
  /\ wheld = [w \in 1..MaxWorkers |-> 0]
  /\ wres = [w \in 1..MaxWorkers |-> FALSE]
  /\ wclock = 1
  /\ wpops = [j \in 1..MaxJobs |-> 0]
  /\ wruns = [j \in 1..MaxJobs |-> 0]
  /\ wfatal = FALSE

EntryOff ==
  /\ xpc = "off"
  /\ xmap = <<>>
  /\ xtls = ""
  /\ xout = FALSE

NewOff ==
  RulesOff /\ MemoryInit /\ TemplateInit /\ QueueOff /\ WorkersInit /\ EntryOff

\* everything of the Service, the parsers and the Transform Stage at rest
ServiceOff ==
  ConvertInit /\ TransformOff /\ ParserOff /\ ManagerOff /\ FaultOff /\ SortOff

\* one Convert call on a fresh Service, any request, any source outcome;
\* the cache starts empty, so the passing of time changes nothing here
Init == ConvertInit /\ TransformOff /\ ParserOff /\ ManagerOff /\ FaultOff /\ SortOff /\ NewOff

Next ==
  \/ \E r \in Requests : ConvertBegin(r, 1) /\ UNCHANGED <<tvars, lvars, mvars, fvars, svars, nvars>>
  \/ \E i \in 1..MaxURLs, o \in Outcomes : FetchTask(i, o) /\ UNCHANGED <<tvars, lvars, mvars, fvars, svars, nvars>>
  \/ FetchJoin /\ UNCHANGED <<tvars, lvars, mvars, fvars, svars, nvars>>
  \/ ConvertFinish /\ UNCHANGED <<tvars, lvars, mvars, fvars, svars, nvars>>
  \/ Cancel /\ UNCHANGED <<tvars, lvars, mvars, fvars, svars, nvars>>

Spec == Init /\ [][Next]_vars

\* Convert calls one after the other on one Service
NextCache ==
  \/ \E r \in LeanRequests : ConvertBegin(r, MaxRequests) /\ UNCHANGED <<tvars, lvars, mvars, fvars, svars, nvars>>
  \/ \E i \in 1..MaxURLs, o \in LeanOutcomes : FetchTask(i, o) /\ UNCHANGED <<tvars, lvars, mvars, fvars, svars, nvars>>
  \/ FetchJoin /\ UNCHANGED <<tvars, lvars, mvars, fvars, svars, nvars>>
  \/ ConvertFinish /\ UNCHANGED <<tvars, lvars, mvars, fvars, svars, nvars>>
  \/ Cancel /\ UNCHANGED <<tvars, lvars, mvars, fvars, svars, nvars>>
  \/ Tick /\ UNCHANGED <<tvars, lvars, mvars, fvars, svars, nvars>>
  \/ Cleanup /\ UNCHANGED <<tvars, lvars, mvars, fvars, svars, nvars>>

SpecCache == Init /\ [][NextCache]_vars

\* the Transform Stage applied to a list, and again to its own output
InitT ==
  /\ ConvertInit
  /\ NewOff
  /\ ParserOff
  /\ ManagerOff
  /\ FaultOff
  /\ SortOff
  /\ tpc = "in"
  /\ tin \in TLists
  /\ topts \in TOptions
  /\ tout1 = <<>>
  /\ tout2 = <<>>

NextT ==
  \/ TransformOnce /\ UNCHANGED <<cvars, lvars, mvars, fvars, svars, nvars>>
  \/ TransformAgain /\ UNCHANGED <<cvars, lvars, mvars, fvars, svars, nvars>>

SpecT == InitT /\ [][NextT]_vars

\* one parser of the registry applied to one content
InitParser ==
  /\ ConvertInit
  /\ NewOff
  /\ TransformOff
  /\ ManagerOff
  /\ FaultOff
  /\ SortOff
  /\ lpc = "in"
  /\ lin \in ParserInputs
  /\ lparser = ""
  /\ lout = ParseFailed

NextParser ==
  \E parser \in Range(Parsers) : ParserParse(parser) /\ UNCHANGED <<cvars, tvars, mvars, fvars, svars, nvars>>

SpecParser == InitParser /\ [][NextParser]_vars

\* the Manager applied to one content, as it is and base64-encoded
InitManager ==
  /\ ConvertInit
  /\ NewOff
  /\ TransformOff
  /\ ParserOff
  /\ FaultOff
  /\ SortOff
  /\ mpc = "in"
  /\ mcontent \in Contents
  /\ mout = ParseFailed
  /\ mformat = ""
  /\ mwrapped = ParseFailed
  /\ mtwice = ParseFailed

NextManager ==
  \/ Validate /\ UNCHANGED <<cvars, tvars, lvars, fvars, svars, nvars>>
  \/ ParseEncoded /\ UNCHANGED <<cvars, tvars, lvars, fvars, svars, nvars>>

SpecManager == InitManager /\ [][NextManager]_vars

\* Convert calls one after the other on a Service whose cache can fail: Get
\* can return an error, the stored bytes can be damaged, Set can return an
\* error
FaultRequests ==
  {[target |-> "clash", urls |-> <<1>>, options |-> NoOptions],
   [target |-> "clash", urls |-> <<1, 2>>, options |-> OptSort]}

\* what cache.Get tells the call: an error, nothing, damaged bytes, a response
LookupOf(got) ==
  IF got.err THEN "error"
  ELSE IF got.value = Nil THEN "miss"
  ELSE IF got.value = Corrupt THEN "corrupt"
  ELSE "hit"

NextFault ==
  \/ \E r \in FaultRequests : \E got \in {CacheGet(r), CacheGetError} :
        /\ ConvertLookup(r, MaxRequests, got)
        /\ lookup' = LookupOf(got)
        /\ writeFailed' = FALSE
        /\ UNCHANGED <<tvars, lvars, mvars, svars, nvars>>
  \/ \E i \in 1..MaxURLs, o \in LeanOutcomes : FetchTask(i, o) /\ UNCHANGED <<tvars, lvars, mvars, fvars, svars, nvars>>
  \/ FetchJoin /\ UNCHANGED <<tvars, lvars, mvars, fvars, svars, nvars>>
  \/ \E setErr \in BOOLEAN :
        /\ ConvertStore(setErr)
        /\ writeFailed' = setErr
        /\ UNCHANGED <<lookup, tvars, lvars, mvars, svars, nvars>>
  \/ CorruptEntry /\ UNCHANGED <<tvars, lvars, mvars, fvars, svars, nvars>>
  \/ Tick /\ UNCHANGED <<tvars, lvars, mvars, fvars, svars, nvars>>

SpecFault == Init /\ [][NextFault]_vars

\* the Transform Stage with sort on lists of maxInsertion proxies and more
InitSort ==
  /\ ConvertInit
  /\ NewOff
  /\ TransformOff
  /\ ParserOff
  /\ ManagerOff
  /\ FaultOff
  /\ spc = "in"
  /\ sin \in SLists
  /\ ssorted = <<>>
  /\ sout = <<>>

NextSort ==
  TransformLong /\ UNCHANGED <<cvars, tvars, lvars, mvars, fvars, nvars>>

SpecSort == InitSort /\ [][NextSort]_vars

(***************************************************************************)
(* Properties.                                                             *)
(***************************************************************************)
\* the result that the task of source i sent
ResultOf(i) == results[CHOOSE k \in 1..Len(results) : results[k].src = i]

\* every task of the current call has sent its result and was joined
FetchRan ==
  /\ pc \in {"fetched", "done"}
  /\ Len(results) > 0
  /\ Len(results) = Len(req.urls)

\* the proxies parsed from the sources that neither failed to fetch nor to parse
FetchedUnion ==
  UNION {Range(results[k].proxies) : k \in {x \in 1..Len(results) : results[x].err = ""}}

\* what the channel would hold had the tasks finished in the order of the URLs
ResultsInURLOrder == [i \in 1..Len(results) |-> ResultOf(i)]

C2_NoProxies ==
  (FetchRan /\ FetchedUnion = {}) =>
     /\ pc = "done"
     /\ outcome = [kind |-> "err", code |-> "NO_PROXIES"]
     /\ ~generated
     /\ cacheWrites = 0
     /\ cache = <<>>

\* both URLs of a request failed to fetch
C2_Witness ==
  /\ pc = "done"
  /\ Len(results) = 2
  /\ \A k \in 1..2 : results[k].err = "fetch"
  /\ outcome = [kind |-> "err", code |-> "NO_PROXIES"]

\* C3: a request with an empty target, an unregistered target or no URL is
\* answered with an error, without any fetch, cache read or cache write.
C3_InvalidRejected ==
  (nreq > 0 /\ (req.target = "" \/ req.target \notin Registered \/ Len(req.urls) = 0)) =>
     /\ pc = "done"
     /\ outcome.kind = "err"
     /\ fetches = 0
     /\ cacheReads = 0
     /\ cacheWrites = 0
     /\ cache = <<>>

\* a request for a registered target without URLs was rejected
C3_Witness ==
  /\ pc = "done"
  /\ req.target = "clash"
  /\ Len(req.urls) = 0
  /\ outcome = [kind |-> "err", code |-> "INVALID_URLS"]

\* C4: a request that repeats the request whose response was last computed
\* and cached, while that cache entry has not expired, is answered with the
\* same config, format and proxy list, and no URL is fetched for it.
C4_WarmCacheSameResponse ==
  (pc = "done" /\ warm) =>
     /\ outcome.kind = "ok"
     /\ outcome.resp.config = prevResp.config
     /\ outcome.resp.format = prevResp.format
     /\ outcome.resp.proxies = prevResp.proxies
     /\ fetches = 0

\* the second of two identical requests was served at the very tick at which
\* the entry expires
C4_Witness ==
  /\ pc = "done"
  /\ warm
  /\ now = prevExpiry
  /\ outcome.kind = "ok"
  /\ Len(outcome.resp.proxies) > 0
  /\ fetches = 0

\* C5: a Convert call whose context has been cancelled does not write to the
\* cache.
C5_CancelledNeverWrites ==
  cancelled => cacheWrites = 0

\* C8: with sort, the names of the list returned by the Transform Stage never
\* decrease; without sort, proxies of one source keep the order they have in
\* that source (the id of a proxy is <<source, position in the source>>).
C8_Order ==
  (pc = "done" /\ generated) =>
     LET out == outcome.resp.proxies
     IN  /\ req.options.sort =>
              \A i, j \in 1..Len(out) : i < j => ~StrLess(out[j].name, out[i].name)
         /\ ~req.options.sort =>
              \A i, j \in 1..Len(out) :
                 (i < j /\ out[i].id[1] = out[j].id[1]) => out[i].id[2] < out[j].id[2]

\* sort moved the second proxy of a source in front of the first
C8_Witness ==
  /\ pc = "done"
  /\ generated
  /\ req.options.sort
  /\ Len(outcome.resp.proxies) >= 2
  /\ outcome.resp.proxies[1].id = <<1, 2>>
  /\ outcome.resp.proxies[2].id = <<1, 1>>

\* C9: with sort, the final list is what the same task results give when
\* they arrive in the order of the URLs, whatever order they arrived in.
C9_SortedResultIndependentOfArrival ==
  (pc = "done" /\ generated /\ req.options.sort) =>
     outcome.resp.proxies = applyFilters(Collect(ResultsInURLOrder), req.options)

\* C10: when the two sources of a request deliver the same (server, port,
\* type) under different names, the result has one proxy for it, under the
\* name the first URL's source gives it.
C10_FirstSourceNameWins ==
  (pc = "done" /\ generated /\ Len(req.urls) = 2 /\ req.options \in {NoOptions, OptSort}) =>
     \A p1 \in Range(ResultOf(1).proxies), p2 \in Range(ResultOf(2).proxies) :
        (DedupKey(p1) = DedupKey(p2) /\ p1.name # p2.name) =>
           LET out  == outcome.resp.proxies
               hits == {k \in 1..Len(out) : DedupKey(out[k]) = DedupKey(p1)}
           IN  /\ Cardinality(hits) = 1
               /\ \A k \in hits : out[k].name = p1.name

\* C6: a proxy of the input whose name contains an exclude pattern is not in
\* the output of applyFilters, whatever the include patterns are.
C6_ExcludeWins ==
  (tpc \in {"once", "twice"}) =>
     \A i \in 1..Len(tin) :
        MatchesAny(tin[i].name, topts.exclude) =>
           \A k \in 1..Len(tout1) : tout1[k].id # tin[i].id

\* a proxy matching both an include and an exclude pattern was dropped while
\* another proxy was kept
C6_Witness ==
  /\ tpc = "once"
  /\ Len(tout1) > 0
  /\ \E i \in 1..Len(tin) :
        /\ MatchesAny(tin[i].name, topts.include)
        /\ MatchesAny(tin[i].name, topts.exclude)

\* C7: applying applyFilters to its own output with the same options gives
\* that output again.
C7_TransformIdempotent ==
  tpc = "twice" => tout2 = tout1

\* the cleaned lines of a content in line mode
CleanLines(content) ==
  LET lines == splitContent(processedContent(content))
  IN  [i \in 1..Len(lines) |-> cleanLine(lines[i])]

\* a cleaned line that some line parser supports
Supported(line) == line # <<>> /\ Supporting(line) # <<>>

\* what the first supporting parser in registry order makes of a line
FirstParse(line) == Parse(Supporting(line)[1], line)

\* the lines that are not empty, not comments, and that the first supporting
\* parser parses successfully
GoodLines(content) ==
  {i \in 1..Len(CleanLines(content)) :
     /\ Supported(CleanLines(content)[i])
     /\ FirstParse(CleanLines(content)[i]).kind = "ok"}

\* C11: in line mode Manager.Parse returns no error, and its proxies are, in
\* line order, the proxies of exactly the non-empty, non-comment lines that
\* the first supporting parser in registry order parses successfully (one
\* proxy per such line); unsupported and failing lines are skipped.
C11_LineModeSkipsBadLines ==
  (mpc # "in" /\ ~WholeDocument(mcontent)) =>
     LET clean == CleanLines(mcontent)
         good  == GoodLines(mcontent)
     IN  /\ mout.kind = "ok"
         /\ Len(mout.proxies) = Cardinality(good)
         /\ \A i \in good :
               mout.proxies[Cardinality({j \in good : j <= i})]
                 = FirstParse(clean[i]).proxies[1]

\* a supported line failed to parse and the line after it gave the only proxy
C11_Witness ==
  /\ mpc # "in"
  /\ ~WholeDocument(mcontent)
  /\ Len(CleanLines(mcontent)) = 2
  /\ Supported(CleanLines(mcontent)[1])
  /\ FirstParse(CleanLines(mcontent)[1]).kind = "err"
  /\ GoodLines(mcontent) = {2}
  /\ Len(mout.proxies) = 1

\* an item of `proxies` with a type of the switch and with name, server and
\* port present and of the type the proxy model gives them
WellFormedItem(proxyMap) ==
  /\ MapHas(proxyMap, KeyType)
  /\ MapGet(proxyMap, KeyType).t = "string"
  /\ MapGet(proxyMap, KeyType).s \in ClashTypes
  /\ \A key \in {KeyName, KeyServer} :
        MapHas(proxyMap, key) /\ MapGet(proxyMap, key).t = "string"
  /\ MapHas(proxyMap, KeyPort)
  /\ MapGet(proxyMap, KeyPort).t = "int"
  /\ \A a \in CaseAssertions(MapGet(proxyMap, KeyType).s) :
        ~AssertPanics(proxyMap, a[1], a[2])

\* C12: for a content the Clash parser takes as a whole document and whose
\* YAML decodes, Manager.Parse returns without error or crash, and its
\* proxies are those of the well-formed items of `proxies`, in order; items
\* with an unknown type, a missing field or a wrongly typed field are dropped.
C12_ClashItemsDroppedIndividually ==
  (mpc # "in" /\ WholeDocument(mcontent)
     /\ ~yamlUnmarshal(processedContent(mcontent)).err) =>
     LET good == SelectSeq(yamlUnmarshal(processedContent(mcontent)).Proxies,
                           WellFormedItem)
     IN  /\ mout.kind = "ok"
         /\ Len(mout.proxies) = Len(good)
         /\ \A k \in 1..Len(good) : mout.proxies[k] = parseProxyMap(good[k]).node

\* C13: SSParser.Parse on ss://<base64(METHOD:PASSWORD)>@HOST:PORT#NAME returns
\* exactly one proxy, with type ss, server HOST, port PORT, method METHOD,
\* password PASSWORD, name NAME and udp true.
C13_SIP002EncodedUserinfo ==
  (lpc = "done" /\ lparser = "ss") =>
     \A m \in SIPMethods, pw \in SIPPasswords, h \in SIPHosts, p \in SIPPorts,
        n \in SIPNames :
        lin = SIP002Link(m, pw, h, p, n) =>
          lout = Parsed(<<Node(TypeSS, n, h, Atoi(p).n, m, pw, <<>>, TRUE)>>)

\* C14: every proxy that Manager.Parse returns, from a URI parser or from the
\* Clash parser, has a non-empty name.
C14_NamesNeverEmpty ==
  mpc # "in" => \A k \in 1..Len(mout.proxies) : mout.proxies[k].name # <<>>

\* C15: every proxy a parser returns has a port in 1..65535; a port that is
\* 0, missing, negative or above 65535 makes the parse fail.
C15_PortInRange ==
  lpc = "done" => \A k \in 1..Len(lout.proxies) : lout.proxies[k].port \in 1..65535

\* the content has a link of that scheme: a line that starts with it
HasLink(content, scheme) ==
  \E i \in 1..Len(splitContent(content)) :
     HasPrefix(cleanLine(splitContent(content)[i]), scheme)

\* C16: detectFormat names the scheme that occurs in the content: "vmess" for
\* a content with a vmess:// link and no ss:// or ssr:// link, "vless" for one
\* whose links are vless:// links, "shadowsocks" for one with an ss:// or
\* ssr:// link.
C16_FormatByScheme ==
  (mpc # "in" /\ mout.kind = "ok") =>
     LET ss == HasLink(mcontent, SchemeSS) \/ HasLink(mcontent, SchemeSSR)
     IN  /\ ss => mformat = "shadowsocks"
         /\ (HasLink(mcontent, SchemeVMess) /\ ~ss) => mformat = "vmess"
         /\ (HasLink(mcontent, SchemeVLESS) /\ ~ss /\ ~HasLink(mcontent, SchemeVMess)
               /\ ~HasLink(mcontent, SchemeTrojan)) => mformat = "vless"

\* neither base64 decoding of the unwrap accepts the content as it stands
NotBase64(content) ==
  /\ StdDecode(TrimSpace(content)).err
  /\ RawURLDecode(TrimSpace(content)).err

\* C17: for a content that is not itself base64-decodable, Manager.Parse on
\* its standard-base64 encoding returns what Manager.Parse returns on the
\* content, for line-based contents and for Clash documents; the unwrap is
\* applied once: the content encoded twice gives no proxy.
C17_Base64UnwrapOnce ==
  (mpc = "encoded" /\ NotBase64(mcontent)) =>
     /\ mwrapped = mout
     /\ mtwice = Parsed(<<>>)

\* an encoded Clash document gave the two proxies of the document
C17_Witness ==
  /\ mpc = "encoded"
  /\ NotBase64(mcontent)
  /\ WholeDocument(mcontent)
  /\ Len(mout.proxies) = 2
  /\ mwrapped = mout

\* C18: a cache.Get that returns an error, nothing, or bytes that do not
\* decode is a miss: every source is fetched and the call returns what the
\* fetched proxies give, the response being stored over the entry; a
\* cache.Set that returns an error does not fail the call.
C18_CacheFailuresAreMisses ==
  (pc = "done" /\ lookup \in {"miss", "error", "corrupt"}) =>
     LET fetched == fetchSubscriptions(results)
         key     == generateCacheKey(req)
     IN  /\ fetches = Len(req.urls)
         /\ IF fetched.err # ""
              THEN outcome = [kind |-> "err", code |-> fetched.err]
              ELSE /\ outcome.kind = "ok"
                   /\ outcome.resp.proxies = applyFilters(fetched.proxies, req.options)
                   /\ outcome.resp.config = Generate(req.target, outcome.resp.proxies)
                   /\ outcome.resp.format = req.target
                   /\ cacheWrites = 1
                   /\ ~writeFailed =>
                         /\ key \in DOMAIN cache
                         /\ cache[key].value = CacheData(outcome.resp)

\* a call found damaged bytes under its key, answered and stored its response
\* over them
C18_Witness ==
  /\ pc = "done"
  /\ lookup = "corrupt"
  /\ ~writeFailed
  /\ outcome.kind = "ok"
  /\ Len(outcome.resp.proxies) > 0
  /\ cache[generateCacheKey(req)].value = CacheData(outcome.resp)

\* the position in a list of the proxy with that id
PosOf(list, id) == CHOOSE k \in 1..Len(list) : list[k].id = id

\* C19: the sort step is stable: two proxies with equal names keep the order
\* they had before sorting, so among equal-named proxies with the same
\* (server, port, type) dedup keeps the one that came first in the input.
C19_SortStable ==
  spc = "done" =>
     \A i, j \in 1..Len(sin) :
        (i < j /\ sin[i].name = sin[j].name) =>
           /\ PosOf(ssorted, sin[i].id) < PosOf(ssorted, sin[j].id)
           /\ DedupKey(sin[i]) = DedupKey(sin[j]) =>
                 /\ \E k \in 1..Len(sout) : sout[k] = sin[i]
                 /\ \A k \in 1..Len(sout) : sout[k] # sin[j]

\* C20: the output of the Transform Stage has no two proxies with the same
\* (server, port, type); every triple of the list that reaches the dedup step
\* is in the output; the proxy kept for a triple is its first occurrence in
\* that list.
C20_DedupKeepsFirst ==
  (tpc \in {"once", "twice"}) =>
     LET pre == beforeDedup(tin, topts)
     IN  /\ \A a, b \in 1..Len(tout1) : a # b => DedupKey(tout1[a]) # DedupKey(tout1[b])
         /\ {DedupKey(pre[i]) : i \in 1..Len(pre)}
               = {DedupKey(tout1[k]) : k \in 1..Len(tout1)}
         /\ \A k \in 1..Len(tout1) :
               \E i \in 1..Len(pre) :
                  /\ tout1[k] = pre[i]
                  /\ \A h \in 1..(i - 1) : DedupKey(pre[h]) # DedupKey(pre[i])

\* of two proxies with different names and the same triple, the later one
\* was dropped
C20_Witness ==
  /\ tpc = "once"
  /\ LET pre == beforeDedup(tin, topts)
     IN  /\ Len(tout1) < Len(pre)
         /\ \E i, j \in 1..Len(pre) :
               /\ i < j
               /\ DedupKey(pre[i]) = DedupKey(pre[j])
               /\ pre[i].name # pre[j].name
               /\ \E k \in 1..Len(tout1) : tout1[k] = pre[i]

(***************************************************************************)
(* The fan-out of fetchSubscriptions under fair scheduling: every          *)
(* goroutine that can take its step takes it (every fetch terminates), and *)
(* the caller goes on once wg.Wait can return.                             *)
(***************************************************************************)
\* options whose exclude filter matches every name with a "1" in it
OptExclude == [NoOptions EXCEPT !.exclude = << <<1>> >>]

FetchRequests ==
  LeanRequests \cup {[target |-> "clash", urls |-> <<1>>, options |-> OptExclude]}

NextFetch ==
  \/ \E r \in FetchRequests : ConvertBegin(r, 1) /\ UNCHANGED <<tvars, lvars, mvars, fvars, svars, nvars>>
  \/ \E i \in 1..MaxURLs, o \in Outcomes : FetchTask(i, o) /\ UNCHANGED <<tvars, lvars, mvars, fvars, svars, nvars>>
  \/ FetchJoin /\ UNCHANGED <<tvars, lvars, mvars, fvars, svars, nvars>>
  \/ ConvertFinish /\ UNCHANGED <<tvars, lvars, mvars, fvars, svars, nvars>>
  \/ Cancel /\ UNCHANGED <<tvars, lvars, mvars, fvars, svars, nvars>>

SpecFetch ==
  /\ Init
  /\ [][NextFetch]_vars
  /\ WF_cvars(\E i \in 1..MaxURLs, o \in Outcomes : FetchTask(i, o))
  /\ WF_cvars(FetchJoin)

\* the results on the channel that source i sent
SentBy(i) == {k \in 1..Len(results) : results[k].src = i}

\* the fan-out and the join, as far as one state shows them
FanOutJoined ==
  /\ pc = "fetching" => DOMAIN tasks = 1..Len(req.urls)
  /\ \A i \in DOMAIN tasks :
        Cardinality(SentBy(i)) = IF tasks[i] = "done" THEN 1 ELSE 0
  /\ Len(results) = Cardinality({i \in DOMAIN tasks : tasks[i] = "done"})
  /\ (\E i \in DOMAIN tasks : tasks[i] = "running") =>
        Len(results) < resultsCap(req.urls)
  /\ (pc \in {"fetched", "done"} /\ fetches > 0) =>
        /\ \A i \in DOMAIN tasks : tasks[i] = "done"
        /\ fetches = Len(req.urls)
  /\ (\E i \in DOMAIN tasks : tasks[i] = "running") =>
        (allProxies = <<>> /\ outcome = NoOutcome)

MaxRules == 2   \* most rules in one RuleSet

\* ruleset.RuleType: one type both generators know, one that only Clash
\* knows, one that neither knows, and a terminal one
RuleTypes == {"DOMAIN", "GEOIP", "USER-AGENT", "MATCH"}

RuleSetRules == {[Type |-> t, Value |-> "v", Proxy |-> "PROXY"] : t \in RuleTypes}

RuleLists == UNION {[1..n -> RuleSetRules] : n \in 0..MaxRules}

RuleSets == {[Enabled |-> e, Rules |-> rs] : e \in BOOLEAN, rs \in RuleLists}

CustomRuleLists == {<<>>, <<<<"DOMAIN", "c", "DIRECT">>>>,
                    <<<<"DOMAIN", "c", "DIRECT">>, <<"MATCH", "REJECT">>>>}

\* ClashGenerator.convertRule: "" (here <<>>) for a type it does not know
convertRule(rule) ==
  IF rule.Type \in {"DOMAIN", "DOMAIN-SUFFIX", "DOMAIN-KEYWORD", "IP-CIDR",
                    "IP-CIDR6", "GEOIP"}
    THEN <<rule.Type, rule.Value, rule.Proxy>>
  ELSE IF rule.Type \in {"FINAL", "MATCH"} THEN <<"MATCH", rule.Proxy>>
  ELSE <<>>

\* the inner loop of buildRules: the converted rules that are not ""
RECURSIVE convertRules(_)
convertRules(rules) ==
  IF rules = <<>> THEN <<>>
  ELSE LET clashRule == convertRule(Head(rules))
       IN (IF clashRule # <<>> THEN <<clashRule>> ELSE <<>>)
            \o convertRules(Tail(rules))

\* the outer loop of buildRules: enabled rulesets only
RECURSIVE rulesetRules(_)
rulesetRules(rulesets) ==
  IF rulesets = <<>> THEN <<>>
  ELSE (IF Head(rulesets).Enabled THEN convertRules(Head(rulesets).Rules)
        ELSE <<>>) \o rulesetRules(Tail(rulesets))

\* the default rule only when nothing else was added
withDefault(result) ==
  IF Len(result) = 0 THEN Append(result, <<"MATCH", "DIRECT">>) ELSE result

\* ClashGenerator.buildRules
buildRules(rulesets, customRules) ==
  withDefault(rulesetRules(rulesets) \o customRules)

\* SurgeGenerator.buildRuleLine: a comment line for a type it does not know
buildRuleLine(rule) ==
  IF rule.Type \in {"DOMAIN", "DOMAIN-SUFFIX", "DOMAIN-KEYWORD", "IP-CIDR",
                    "IP-CIDR6"}
    THEN <<rule.Type, rule.Value, rule.Proxy>>
  ELSE IF rule.Type \in {"FINAL", "MATCH"} THEN <<"FINAL", rule.Proxy>>
  ELSE <<"# Unsupported rule type: ", rule.Type>>

RECURSIVE buildRuleLines(_)
buildRuleLines(rules) ==
  IF rules = <<>> THEN <<>>
  ELSE <<buildRuleLine(Head(rules))>> \o buildRuleLines(Tail(rules))

\* the rule section of SurgeGenerator.Generate: the lines of the enabled
\* rulesets, then FINAL,DIRECT; options.Rules is not read
RECURSIVE surgeRulesetLines(_)
surgeRulesetLines(rulesets) ==
  IF rulesets = <<>> THEN <<>>
  ELSE (IF Head(rulesets).Enabled THEN buildRuleLines(Head(rulesets).Rules)
        ELSE <<>>) \o surgeRulesetLines(Tail(rulesets))

SurgeRuleSection(rulesets, options) ==
  Append(surgeRulesetLines(rulesets), <<"FINAL", "DIRECT">>)

\* both generators on the same rulesets and options
GenerateRules ==
  /\ rpc = "in"
  /\ rpc' = "done"
  /\ rclash' = buildRules(rsets, rcustom)
  /\ rsurge' = SurgeRuleSection(rsets, [Rules |-> rcustom])
  /\ UNCHANGED <<rsets, rcustom>>

InitRules ==
  /\ ServiceOff
  /\ rpc = "in"
  /\ rsets \in [1..2 -> RuleSets]
  /\ rcustom \in CustomRuleLists
  /\ rclash = <<>>
  /\ rsurge = <<>>
  /\ MemoryInit
  /\ TemplateInit
  /\ QueueOff
  /\ WorkersInit
  /\ EntryOff

NextRules ==
  GenerateRules /\ UNCHANGED <<ovars, kvars, pvars, qvars, wvars, xvars>>

SpecRules == InitRules /\ [][NextRules]_vars

\* a rule as a line of the format: its fields, a terminal rule under the
\* format's word for it
ruleLineOf(word, rule) ==
  IF rule.Type \in {"FINAL", "MATCH"} THEN <<word, rule.Proxy>>
  ELSE <<rule.Type, rule.Value, rule.Proxy>>

RECURSIVE ruleLinesOf(_, _)
ruleLinesOf(word, rules) ==
  IF rules = <<>> THEN <<>>
  ELSE <<ruleLineOf(word, Head(rules))>> \o ruleLinesOf(word, Tail(rules))

RECURSIVE enabledLinesOf(_, _)
enabledLinesOf(word, rulesets) ==
  IF rulesets = <<>> THEN <<>>
  ELSE (IF Head(rulesets).Enabled THEN ruleLinesOf(word, Head(rulesets).Rules)
        ELSE <<>>) \o enabledLinesOf(word, Tail(rulesets))

\* the rules of the enabled rulesets, then the custom rules; the terminal
\* default exactly when that list is empty
RuleListOf(word, rulesets, customRules) ==
  LET list == enabledLinesOf(word, rulesets) \o customRules
  IN IF list = <<>> THEN <<<<word, "DIRECT">>>> ELSE list

\* C22: in Clash and in Surge the emitted rule list is the rules of the
\* enabled RuleSets, in RuleSet order and each in its own order, followed by
\* the custom rules, and the terminal default rule (MATCH,DIRECT, for Surge
\* FINAL,DIRECT) is appended if and only if that list is empty
C22_RuleOrder ==
  rpc = "done" =>
    /\ rclash = RuleListOf("MATCH", rsets, rcustom)
    /\ rsurge = RuleListOf("FINAL", rsets, rcustom)


(***************************************************************************)
(* MemoryCache used by several callers at once.  Get holds the read lock,  *)
(* Set, Delete and the sweep hold the write lock for their whole body, so  *)
(* each is one step.                                                       *)
(***************************************************************************)
MemValues == {<<1>>, <<2>>}

MemTTLs == {0, CacheTTL}

\* MemoryCache.Delete
MemoryDelete(data, key) ==
  [k \in DOMAIN data \ {key} |-> data[k]]

\* what is due to a Get of key at time t, from the calls made so far
Due(last, key, t) ==
  IF last[key] # NoSet /\ ~(t > last[key].expiry) THEN last[key].value ELSE Nil

CacheGetStep(key) ==
  /\ kgot' = [key |-> key, value |-> MemoryGet(kdata, key, know),
              due |-> Due(klast, key, know)]
  /\ UNCHANGED <<kdata, know, klast, kswept>>

CacheSetStep(key, value, ttl) ==
  /\ kdata' = MemorySet(kdata, key, value, ttl, know)
  /\ klast' = [klast EXCEPT ![key] = [value |-> value, expiry |-> know + ttl]]
  /\ UNCHANGED <<know, kgot, kswept>>

CacheDeleteStep(key) ==
  /\ kdata' = MemoryDelete(kdata, key)
  /\ klast' = [klast EXCEPT ![key] = NoSet]
  /\ UNCHANGED <<know, kgot, kswept>>

\* the ticker of cleanup fires
CacheSweepStep ==
  /\ kdata' = CleanupSweep(kdata, know)
  /\ kswept' = [at |-> know,
                deleted |-> {[key |-> k, expiry |-> kdata[k].expiry] :
                               k \in DOMAIN kdata \ DOMAIN kdata'}]
  /\ UNCHANGED <<know, klast, kgot>>

CacheTick ==
  /\ know < MaxClock
  /\ know' = know + 1
  /\ UNCHANGED <<kdata, klast, kgot, kswept>>

InitMemory ==
  ServiceOff /\ RulesOff /\ MemoryInit /\ TemplateInit /\ QueueOff /\ WorkersInit /\ EntryOff

NextMemory ==
  \/ \E key \in MemKeys : CacheGetStep(key) /\ UNCHANGED <<ovars, rvars, pvars, qvars, wvars, xvars>>
  \/ \E key \in MemKeys, value \in MemValues, ttl \in MemTTLs :
        CacheSetStep(key, value, ttl) /\ UNCHANGED <<ovars, rvars, pvars, qvars, wvars, xvars>>
  \/ \E key \in MemKeys : CacheDeleteStep(key) /\ UNCHANGED <<ovars, rvars, pvars, qvars, wvars, xvars>>
  \/ CacheSweepStep /\ UNCHANGED <<ovars, rvars, pvars, qvars, wvars, xvars>>
  \/ CacheTick /\ UNCHANGED <<ovars, rvars, pvars, qvars, wvars, xvars>>

SpecMemory == InitMemory /\ [][NextMemory]_vars

\* C23: under any interleaving of Get, Set, Delete and the sweep, Get(key)
\* returns the value of the latest Set on that key if it has not been deleted
\* and the clock is not past its expiry, and nil otherwise; the sweep removes
\* only entries whose expiry has passed
C23_MemoryCache ==
  /\ kgot # NoGet => kgot.value = kgot.due
  /\ \A e \in kswept.deleted : kswept.at > e.expiry

C23_Witness ==
  /\ kgot # NoGet
  /\ kgot.value # Nil
  /\ kswept.deleted # {}
  /\ kgot.key \in {e.key : e \in kswept.deleted}
  /\ Cardinality(DOMAIN kdata) = 2


(***************************************************************************)
(* template.Manager.LoadTemplate called by conversions that run at the     *)
(* same time (ClashGenerator.Generate -> RenderTemplate -> LoadTemplate).  *)
(* The Manager has no lock: a read of the map and an assignment to it each *)
(* take time, so a goroutine is inside one from a step to the next.        *)
(***************************************************************************)
\* the files of templatesDir, and a name that is not one of them
TemplateFiles == {"base.tpl", "lite.tpl"}

TemplateNames == TemplateFiles \cup {"none.tpl"}

\* two goroutines are inside the map at once and one of them assigns
MapRace ==
  \E g \in Callers, h \in Callers :
     g # h /\ ppc[g] = "insert" /\ ppc[h] \in {"lookup", "insert"}

\* LoadTemplate is called: the goroutine starts to read m.cache[name]
LoadTemplateCall(g, name) ==
  /\ ~pfatal
  /\ ppc[g] = "idle"
  /\ ppc' = [ppc EXCEPT ![g] = "lookup"]
  /\ pname' = [pname EXCEPT ![g] = name]
  /\ pret' = [pret EXCEPT ![g] = ""]
  /\ UNCHANGED <<pcache, pfatal>>

\* the read ends: a cached template is returned, otherwise the file is next
LoadTemplateLookup(g) ==
  /\ ~pfatal
  /\ ppc[g] = "lookup"
  /\ IF pname[g] \in pcache
       THEN /\ ppc' = [ppc EXCEPT ![g] = "idle"]
            /\ pret' = [pret EXCEPT ![g] = pname[g]]
       ELSE /\ ppc' = [ppc EXCEPT ![g] = "load"]
            /\ UNCHANGED pret
  /\ UNCHANGED <<pname, pcache, pfatal>>

\* os.Stat, os.ReadFile, template.Parse; then the goroutine starts to assign
\* m.cache[name]
LoadTemplateFile(g) ==
  /\ ~pfatal
  /\ ppc[g] = "load"
  /\ IF pname[g] \in TemplateFiles
       THEN /\ ppc' = [ppc EXCEPT ![g] = "insert"]
            /\ UNCHANGED pret
       ELSE /\ ppc' = [ppc EXCEPT ![g] = "idle"]
            /\ pret' = [pret EXCEPT ![g] = "TEMPLATE_NOT_FOUND"]
  /\ UNCHANGED <<pname, pcache, pfatal>>

\* the assignment ends and LoadTemplate returns the template
LoadTemplateInsert(g) ==
  /\ ~pfatal
  /\ ppc[g] = "insert"
  /\ pcache' = pcache \cup {pname[g]}
  /\ ppc' = [ppc EXCEPT ![g] = "idle"]
  /\ pret' = [pret EXCEPT ![g] = pname[g]]
  /\ UNCHANGED <<pname, pfatal>>

\* the runtime detects the concurrent map access and stops the process; it
\* need not, and then the calls go on
MapFault ==
  /\ ~pfatal
  /\ MapRace
  /\ pfatal' = TRUE
  /\ UNCHANGED <<ppc, pname, pret, pcache>>

InitTemplates ==
  ServiceOff /\ RulesOff /\ MemoryInit /\ TemplateInit /\ QueueOff /\ WorkersInit /\ EntryOff

NextTemplates ==
  \/ \E g \in Callers, name \in TemplateNames :
        LoadTemplateCall(g, name) /\ UNCHANGED <<ovars, rvars, kvars, qvars, wvars, xvars>>
  \/ \E g \in Callers : LoadTemplateLookup(g) /\ UNCHANGED <<ovars, rvars, kvars, qvars, wvars, xvars>>
  \/ \E g \in Callers : LoadTemplateFile(g) /\ UNCHANGED <<ovars, rvars, kvars, qvars, wvars, xvars>>
  \/ \E g \in Callers : LoadTemplateInsert(g) /\ UNCHANGED <<ovars, rvars, kvars, qvars, wvars, xvars>>
  \/ MapFault /\ UNCHANGED <<ovars, rvars, kvars, qvars, wvars, xvars>>

SpecTemplates == InitTemplates /\ [][NextTemplates]_vars

\* C24: two concurrent LoadTemplate calls on one Manager, for the same or for
\* different names, are never inside the template cache map at the same time
\* with one of them inserting (read and insert, or insert and insert)
C24_CacheGuarded == ~MapRace


(***************************************************************************)
(* Convert and the options of the request.                                 *)
(***************************************************************************)
\* every channel content the sources of `urls` can leave behind: any outcome
\* per source, any arrival order
ArrivalOrders(n) ==
  {p \in [1..n -> 1..n] : \A i \in 1..n, j \in 1..n : p[i] = p[j] => i = j}

PossibleChannels(urls) ==
  {[k \in 1..Len(urls) |-> TaskResult(p[k], os[p[k]], FALSE)] :
     p \in ArrivalOrders(Len(urls)), os \in [1..Len(urls) -> Outcomes]}

\* the proxy list is the Transform Stage result, under the options of r, of
\* something the sources of r can deliver
ReflectsOptions(r, resp) ==
  \E chan \in PossibleChannels(r.urls) :
     /\ fetchSubscriptions(chan).err = ""
     /\ resp.proxies = applyFilters(Collect(chan), r.options)

\* C25: every response Convert returns, freshly computed or served from the
\* cache, reflects the options of the request it answers: its proxy list is
\* the Transform Stage result for that request's options, so requests with the
\* same target and URLs but different options never get each other's response
C25_ResponseReflectsOptions ==
  (pc = "done" /\ outcome.kind = "ok") => ReflectsOptions(req, outcome.resp)


\* C26: every successful Convert response contains at least one proxy; a
\* request whose include and exclude filters remove every fetched proxy does
\* not succeed with an empty proxy list
C26_ResponseNotEmpty ==
  (pc = "done" /\ outcome.kind = "ok") => Len(outcome.resp.proxies) > 0


\* C27: the names of the proxies in the final proxy list of a Convert are
\* pairwise distinct, after rename, emoji and dedup, so that a member name of
\* a proxy group denotes exactly one proxy
C27_NamesDistinct ==
  (pc = "done" /\ outcome.kind = "ok") =>
     \A i \in 1..Len(outcome.resp.proxies), j \in 1..Len(outcome.resp.proxies) :
        outcome.resp.proxies[i].name = outcome.resp.proxies[j].name => i = j


(***************************************************************************)
(* Queue.Fail and Queue.Get of the two Queue implementations.  The store   *)
(* maps a job id to the Job: q.jobs of MemoryQueue, the keys               *)
(* "subconverter:jobs:<id>" of RedisQueue (the JSON of a Job decodes to    *)
(* the Job it encodes).  An error is its message; "" is the nil error.     *)
(***************************************************************************)
JobIDs == {"job_1", "job_2"}

FailErrors == {"NO_PROXIES", "context deadline exceeded"}

\* the jobs a queue can hold after some Push and Pop calls
StoredJobs ==
  UNION {[ids -> {"pending", "processing"}] : ids \in SUBSET JobIDs}

JobOf(id, status) == [ID |-> id, Status |-> status, Error |-> ""]

\* how a call ends: it panics, or it returns `ret` and leaves `store`
Returned(store, ret) == [store |-> store, panic |-> FALSE, ret |-> ret]

Panicked(store) == [store |-> store, panic |-> TRUE, ret |-> ""]

\* MemoryQueue.Fail
MemoryFail(store, jobID, e) ==
  IF jobID \in DOMAIN store
    THEN Returned([store EXCEPT ![jobID].Status = "failed",
                                ![jobID].Error = e], "")
  ELSE Returned(store, "")

\* MemoryQueue.Get: (nil, nil) for an id that is not stored
MemoryQueueGet(store, jobID) ==
  IF jobID \in DOMAIN store THEN [job |-> store[jobID], err |-> ""]
  ELSE [job |-> NoJob, err |-> ""]

\* q.client.Get(ctx, q.prefix+jobID).Bytes()
RedisBytes(store, jobID) ==
  IF jobID \in DOMAIN store THEN [data |-> store[jobID], err |-> ""]
  ELSE [data |-> NoJob, err |-> "redis: nil"]

\* the rest of RedisQueue.Fail once the job is decoded; `err` is the variable
\* of that name at this point, and err.Error() on a nil error panics
RedisFailWith(store, jobID, job, err) ==
  IF err = "" THEN Panicked(store)
  ELSE Returned([store EXCEPT ![jobID] =
                   [job EXCEPT !.Status = "failed", !.Error = err]], "")

\* RedisQueue.Fail: `data, err := q.client.Get(...)` assigns the parameter
\* err, so from there on err is the error of Get, not the error of the caller
RedisFail(store, jobID, e) ==
  IF RedisBytes(store, jobID).err # ""
    THEN Returned(store, RedisBytes(store, jobID).err)
  ELSE RedisFailWith(store, jobID, RedisBytes(store, jobID).data,
                     RedisBytes(store, jobID).err)

\* RedisQueue.Get
RedisQueueGet(store, jobID) ==
  IF RedisBytes(store, jobID).err # ""
    THEN [job |-> NoJob, err |-> RedisBytes(store, jobID).err]
  ELSE [job |-> RedisBytes(store, jobID).data, err |-> ""]

QueueFailOf(impl, store, jobID, e) ==
  IF impl = "memory" THEN MemoryFail(store, jobID, e)
  ELSE RedisFail(store, jobID, e)

QueueGetOf(impl, store, jobID) ==
  IF impl = "memory" THEN MemoryQueueGet(store, jobID)
  ELSE RedisQueueGet(store, jobID)

\* Fail(ctx, jobID, e) is called, as Worker.processJob does after a failed
\* Convert; a panic ends the process
QueueFail(jobID, e) ==
  /\ ~qfail.panic
  /\ qstore' = QueueFailOf(qimpl, qstore, jobID, e).store
  /\ qfail' = [id |-> jobID, e |-> e, stored |-> jobID \in DOMAIN qstore,
               panic |-> QueueFailOf(qimpl, qstore, jobID, e).panic,
               ret |-> QueueFailOf(qimpl, qstore, jobID, e).ret]
  /\ UNCHANGED <<qimpl, qgot>>

\* Get(ctx, jobID) is called
QueueGet(jobID) ==
  /\ ~qfail.panic
  /\ qgot' = QueueGetOf(qimpl, qstore, jobID)
  /\ UNCHANGED <<qimpl, qstore, qfail>>

InitQueue ==
  /\ ServiceOff /\ RulesOff /\ MemoryInit /\ TemplateInit /\ WorkersInit /\ EntryOff
  /\ qimpl \in {"memory", "redis"}
  /\ qstore \in {[id \in DOMAIN st |-> JobOf(id, st[id])] : st \in StoredJobs}
  /\ qfail = NoFail
  /\ qgot = [job |-> NoJob, err |-> ""]

NextQueue ==
  \/ \E jobID \in JobIDs, e \in FailErrors :
        QueueFail(jobID, e) /\ UNCHANGED <<ovars, rvars, kvars, pvars, wvars, xvars>>
  \/ \E jobID \in JobIDs : QueueGet(jobID) /\ UNCHANGED <<ovars, rvars, kvars, pvars, wvars, xvars>>

SpecQueue == InitQueue /\ [][NextQueue]_vars

\* C28: for MemoryQueue and for RedisQueue, after Fail(ctx, jobID, e) on a
\* stored job with a non-nil error e, Get(jobID) returns that job with status
\* "failed" and Error equal to the message of e, and Fail itself neither
\* crashes nor leaves the job in status "processing"
C28_FailRecorded ==
  (qfail # NoFail /\ qfail.stored) =>
     /\ ~qfail.panic
     /\ QueueGetOf(qimpl, qstore, qfail.id).err = ""
     /\ QueueGetOf(qimpl, qstore, qfail.id).job.ID = qfail.id
     /\ QueueGetOf(qimpl, qstore, qfail.id).job.Status = "failed"
     /\ QueueGetOf(qimpl, qstore, qfail.id).job.Error = qfail.e


(***************************************************************************)
(* MemoryQueue with callers of Push and the worker pool of Worker.Start.   *)
(* A Job is an object on the heap: q.jobs and the channel hold pointers to *)
(* it.  q.jobs is a plain map with no lock: an assignment to it and a read *)
(* of it each take time.                                                   *)
(***************************************************************************)
\* generateJobID: "job_<UnixNano>"
generateJobID(t) == t

\* a goroutine is inside q.jobs[...] = job while another one is inside an
\* assignment or a read of q.jobs
QueueMapRace ==
  \E j \in 1..MaxJobs :
     /\ wpush[j] = "writing"
     /\ \/ \E k \in 1..MaxJobs : k # j /\ wpush[k] = "writing"
        \/ \E w \in 1..MaxWorkers : wpc[w] = "lookup"

\* Push up to the assignment q.jobs[job.ID] = job
PushBegin(j) ==
  /\ ~wfatal
  /\ wpush[j] = "new"
  /\ wjob' = [wjob EXCEPT ![j] = [ID |-> generateJobID(wclock),
                                  Status |-> "pending"]]
  /\ wpush' = [wpush EXCEPT ![j] = "writing"]
  /\ UNCHANGED <<wmap, wchan, wpc, wheld, wres, wclock, wpops, wruns, wfatal>>

\* the assignment ends, the job is sent on the channel (1000 places, never
\* full here) and Push returns nil
PushEnd(j) ==
  /\ ~wfatal
  /\ wpush[j] = "writing"
  /\ wmap' = [id \in DOMAIN wmap \cup {wjob[j].ID} |->
                IF id = wjob[j].ID THEN j ELSE wmap[id]]
  /\ wchan' = Append(wchan, j)
  /\ wpush' = [wpush EXCEPT ![j] = "pushed"]
  /\ UNCHANGED <<wjob, wpc, wheld, wres, wclock, wpops, wruns, wfatal>>

\* the clock moves on by a nanosecond
ClockTick ==
  /\ ~wfatal
  /\ wclock < MaxClock
  /\ wclock' = wclock + 1
  /\ UNCHANGED <<wjob, wpush, wmap, wchan, wpc, wheld, wres, wpops, wruns,
                 wfatal>>

\* Worker.worker: Pop receives a job from the channel and marks it
WorkerPop(w) ==
  /\ ~wfatal
  /\ wpc[w] = "pop"
  /\ wchan # <<>>
  /\ wjob' = [wjob EXCEPT ![Head(wchan)].Status = "processing"]
  /\ wchan' = Tail(wchan)
  /\ wheld' = [wheld EXCEPT ![w] = Head(wchan)]
  /\ wpops' = [wpops EXCEPT ![Head(wchan)] = @ + 1]
  /\ wpc' = [wpc EXCEPT ![w] = "convert"]
  /\ UNCHANGED <<wpush, wmap, wres, wclock, wruns, wfatal>>

\* Worker.processJob: Convert returns; Complete or Fail starts to read
\* q.jobs[job.ID]
WorkerConvert(w, ok) ==
  /\ ~wfatal
  /\ wpc[w] = "convert"
  /\ wres' = [wres EXCEPT ![w] = ok]
  /\ wruns' = [wruns EXCEPT ![wheld[w]] = @ + 1]
  /\ wpc' = [wpc EXCEPT ![w] = "lookup"]
  /\ UNCHANGED <<wjob, wpush, wmap, wchan, wheld, wclock, wpops, wfatal>>

\* MemoryQueue.Complete / Fail: the job stored under the id gets the status
WorkerFinish(w) ==
  /\ ~wfatal
  /\ wpc[w] = "lookup"
  /\ wjob' = IF wjob[wheld[w]].ID \in DOMAIN wmap
               THEN [wjob EXCEPT ![wmap[wjob[wheld[w]].ID]].Status =
                       IF wres[w] THEN "completed" ELSE "failed"]
             ELSE wjob
  /\ wpc' = [wpc EXCEPT ![w] = "pop"]
  /\ wheld' = [wheld EXCEPT ![w] = 0]
  /\ UNCHANGED <<wpush, wmap, wchan, wres, wclock, wpops, wruns, wfatal>>

\* the runtime detects the concurrent map access and stops the process; it
\* need not, and then everything goes on
QueueMapFault ==
  /\ ~wfatal
  /\ QueueMapRace
  /\ wfatal' = TRUE
  /\ UNCHANGED <<wjob, wpush, wmap, wchan, wpc, wheld, wres, wclock, wpops,
                 wruns>>

InitWorkers ==
  /\ ServiceOff /\ RulesOff /\ MemoryInit /\ TemplateInit /\ QueueOff
  /\ WorkersInit /\ EntryOff

NextWorkers ==
  \/ \E j \in 1..MaxJobs : PushBegin(j) /\ UNCHANGED <<ovars, rvars, kvars, pvars, qvars, xvars>>
  \/ \E j \in 1..MaxJobs : PushEnd(j) /\ UNCHANGED <<ovars, rvars, kvars, pvars, qvars, xvars>>
  \/ ClockTick /\ UNCHANGED <<ovars, rvars, kvars, pvars, qvars, xvars>>
  \/ \E w \in 1..MaxWorkers : WorkerPop(w) /\ UNCHANGED <<ovars, rvars, kvars, pvars, qvars, xvars>>
  \/ \E w \in 1..MaxWorkers, ok \in BOOLEAN :
        WorkerConvert(w, ok) /\ UNCHANGED <<ovars, rvars, kvars, pvars, qvars, xvars>>
  \/ \E w \in 1..MaxWorkers : WorkerFinish(w) /\ UNCHANGED <<ovars, rvars, kvars, pvars, qvars, xvars>>
  \/ QueueMapFault /\ UNCHANGED <<ovars, rvars, kvars, pvars, qvars, xvars>>

\* every started Push finishes, every worker goroutine keeps running and
\* Convert terminates
SpecWorkers ==
  /\ InitWorkers /\ [][NextWorkers]_vars
  /\ \A j \in 1..MaxJobs : WF_wvars(PushEnd(j))
  /\ \A w \in 1..MaxWorkers : WF_wvars(WorkerPop(w))
  /\ \A w \in 1..MaxWorkers : WF_wvars(\E ok \in BOOLEAN : WorkerConvert(w, ok))
  /\ \A w \in 1..MaxWorkers : WF_wvars(WorkerFinish(w))

\* the moves a job's status may make
StatusMoves ==
  {<<"", "pending">>, <<"pending", "processing">>,
   <<"processing", "completed">>, <<"processing", "failed">>}

StatusMovesInOrder ==
  \A j \in 1..MaxJobs :
     wjob'[j].Status # wjob[j].Status =>
        <<wjob[j].Status, wjob'[j].Status>> \in StatusMoves

\* C29: with a MemoryQueue and concurrent workers every job whose Push
\* returned nil is handed by Pop to exactly one worker, is processed at most
\* once, its status only moves pending -> processing -> completed or failed,
\* and it eventually reaches completed or failed
C29_JobLifecycle ==
  /\ [][StatusMovesInOrder]_wvars
  /\ [](\A j \in 1..MaxJobs : wpops[j] <= 1 /\ wruns[j] <= 1)
  /\ \A j \in 1..MaxJobs :
        (wpush[j] = "pushed") ~>
           (wpops[j] = 1 /\ wjob[j].Status \in {"completed", "failed"})


(***************************************************************************)
(* The TLS setting of one vmess or vless entry of a Clash document through *)
(* ClashParser.parseProxyMap and ClashGenerator.buildProxies.              *)
(***************************************************************************)
KeyTLS == Txt("tls")

KeyNetwork == Txt("network")

\* proxy.TLS: the constant TLSNone, and TLSRequire
TLSNone == "none"

TLSRequire == "require"

\* node.TLS after parseProxyMap: the cases vmess, vless, http and https set
\* it to TLSRequire for `tls: true`; otherwise the field keeps the zero value
\* of its type, the empty string
parsedTLS(type, proxyMap) ==
  IF /\ type \in {TypeVMess, TypeVLESS, TypeHTTP, TypeHTTPS}
     /\ MapHas(proxyMap, KeyTLS)
     /\ MapGet(proxyMap, KeyTLS).t = "bool"
     /\ MapGet(proxyMap, KeyTLS).b
    THEN TLSRequire
  ELSE ""

\* buildProxies, cases vmess and vless: proxyMap["tls"] = true is set
emitsTLS(type, tls) ==
  type \in {TypeVMess, TypeVLESS} /\ tls # TLSNone

\* entries of a Clash document: vmess and vless, with and without tls, udp
\* and network keys
TLSParts ==
  {<<>>, << <<KeyTLS, BoolValue(FALSE)>> >>, << <<KeyTLS, BoolValue(TRUE)>> >>}

UDPParts ==
  {<<>>, << <<KeyUDP, BoolValue(FALSE)>> >>, << <<KeyUDP, BoolValue(TRUE)>> >>}

NetworkParts == {<<>>, << <<KeyNetwork, StrValue(Txt("ws"))>> >>}

EntryBase(type, name) ==
  << <<KeyName, StrValue(name)>>, <<KeyType, StrValue(type)>>,
     <<KeyServer, StrValue(Txt("h"))>>, <<KeyPort, IntValue(443)>>,
     <<KeyUUID, StrValue(Txt("u"))>> >>

TLSEntries ==
  {EntryBase(type, name) \o tls \o udp \o network :
     type \in {TypeVMess, TypeVLESS}, name \in {Txt("a"), Txt("b")},
     tls \in TLSParts, udp \in UDPParts, network \in NetworkParts}

\* ClashParser.Parse on the entry
ParseEntry ==
  /\ xpc = "in"
  /\ parseProxyMap(xmap).kind = "ok"
  /\ xtls' = parsedTLS(MapGet(xmap, KeyType).s, xmap)
  /\ xpc' = "parsed"
  /\ UNCHANGED <<xmap, xout>>

\* ClashGenerator.Generate on the parsed proxy
GenerateEntry ==
  /\ xpc = "parsed"
  /\ xout' = emitsTLS(MapGet(xmap, KeyType).s, xtls)
  /\ xpc' = "generated"
  /\ UNCHANGED <<xmap, xtls>>

InitEntry ==
  /\ ServiceOff /\ RulesOff /\ MemoryInit /\ TemplateInit /\ QueueOff
  /\ WorkersInit
  /\ xpc = "in"
  /\ xmap \in TLSEntries
  /\ xtls = ""
  /\ xout = FALSE

NextEntry ==
  \/ ParseEntry /\ UNCHANGED <<ovars, rvars, kvars, pvars, qvars, wvars>>
  \/ GenerateEntry /\ UNCHANGED <<ovars, rvars, kvars, pvars, qvars, wvars>>

SpecEntry == InitEntry /\ [][NextEntry]_vars

\* the source entry says tls: true
SourceTLS(proxyMap) ==
  MapHas(proxyMap, KeyTLS) /\ MapGet(proxyMap, KeyTLS) = BoolValue(TRUE)

\* C30: parsing a Clash document and generating Clash from the result keeps
\* the TLS posture of each vmess and vless proxy: an entry with no tls key or
\* with tls: false is emitted without tls: true, one with tls: true with it
C30_TLSPreserved ==
  xpc = "generated" => (xout <=> SourceTLS(xmap))

====
